---- MODULE Spec2Model ----
(***************************************************************************)
(* Model of the transcription and generation orchestration of the          *)
(* video-to-guide pipeline: the audio chunk planner and the overlap merger *)
(* of the two remote transcription providers (providers/openrouter.py,     *)
(* providers/huggingface.py), their chunk loop, the Transcriber's provider  *)
(* chain (transcriber.py), the GuideGenerator's generator chain            *)
(* (guide_generator.py), the retry loop of the remote generation           *)
(* (providers/openrouter.py), the local Ollama generation                  *)
(* (providers/ollama_provider.py), the audio extraction                    *)
(* (audio_extractor.py), the progress tracker (utils.py), and the pipeline *)
(* constructor, per-item steps, cleanup and batch loop                     *)
(* (scripts/process_videos.py).                                            *)
(*                                                                         *)
(* Texts are sequences of one-character strings, so that Python's          *)
(* character slicing (text[-50:]), strip() and split() can be modelled by  *)
(* what they do.  Durations are whole seconds and file sizes whole         *)
(* megabytes; the planner's float arithmetic is modelled exactly           *)
(* (rational), not with binary rounding.                                   *)
(***************************************************************************)
EXTENDS Integers, Sequences, FiniteSets, TLC

VARIABLES
    \* ---- planner harness (provider._split_audio_file) ----
    planProvider,     \* "openrouter" | "huggingface"
    planCfg,          \* the provider's chunking configuration
    total_duration,   \* seconds, as ffprobe reports it
    file_size_mb,     \* size of the audio file
    float_loss,       \* 0 | 1: rounding of the float size estimate (see below)
    planPhase,        \* "idle" | "input" | "direct" | "planned" | "error"
    windows,          \* the windows the loop planned, in order
    \* ---- merger harness (provider._merge_overlapping_transcriptions) ----
    mergeProvider,    \* "openrouter" | "huggingface"
    transcriptions,   \* the chunk results handed to the merger
    mergePhase,       \* "idle" | "input" | "merged"
    combined_text,    \* what the merger returned
    \* ---- the pipeline: VideoPipeline and its Transcriber ----
    processing_mode,    \* one of Modes
    config,             \* transcription.api: [provider, fallback_to_local]
    environment,        \* [whisper_available, model_loadable, api_key_present]
    overwrite_existing, \* processing.overwrite_existing
    pipeline,           \* "idle" | "new" | "constructed" | "raised"
    model,              \* Transcriber.model: "None" | "loaded"
    api_provider,       \* Transcriber.api_provider: "None" | a provider name
    language,           \* Transcriber.language: "unset" | "set"
    item,               \* position of process_single_video for the video
    steps_run,          \* components invoked for the video, in order
    attempts,           \* adapters transcribe_audio invoked, in order
    result,             \* what transcribe_audio returned
    audio_file,         \* whether the extracted audio exists
    transcript_file,    \* the transcription text file: [exists, text]
    provider_call,      \* what the remote provider met when it was called
    preserve_intermediate, \* processing.preserve_intermediate
    found,              \* the artifacts of the video found when it was started
    guide_file,         \* the guide file: [exists, text]
    guide_attempts,     \* generators generate_guide invoked for the video
    guide_input,        \* the transcription text handed to generate_guide
    cleanup,            \* _cleanup_intermediate_files: "none" | "removed" | "failed"
    \* ---- the guide generator (GuideGenerator) ----
    genMode,            \* one of Modes
    genConfig,          \* guide_generation: [provider, fallback_to_local_ai,
                        \*                    fallback_to_template]
    genEnv,             \* [api_key_present, ollama_at_startup]
    genPhase,           \* "idle" | "new" | "constructed" | "raised" | "generated"
    generator,          \* [template_ready, ollama_provider, api_provider]
    genCall,            \* what generate_guide met when it was called
    gen_attempts,       \* generators generate_guide invoked, in order
    gen_result,         \* what generate_guide returned
    genGuide,           \* the guide file: [exists, text]
    \* ---- the batch (VideoPipeline.process_batch) ----
    video_files,        \* the videos found in the directory, sorted
    batch_pos,          \* index of the video the loop is at
    in_flight,          \* where process_single_video is for that video
    results,            \* the map video -> success
    processed,          \* the videos process_single_video was called for
    cancelled,          \* whether a KeyboardInterrupt ended the loop
    artifacts,          \* the files in the output directories: [video, kind]
    batchPhase,         \* "idle" | "running" | "returned"
    \* ---- chunked transcription (provider._transcribe_with_chunking) ----
    chunkProvider,      \* "openrouter" | "huggingface"
    planned_windows,    \* how many windows _split_audio_file planned
    chunk_paths,        \* the chunk files it created: the numbers of their windows
    chunk_index,        \* the place of the loop in chunk_paths, from 1
    requested,          \* the chunks a request was sent for, in order
    chunk_entries,      \* the list "transcriptions" of the loop
    chunkPhase,         \* "idle" | "splitting" | "looping" | "returned"
    chunked_result,     \* what _transcribe_with_chunking returned
    \* ---- remote generation (OpenRouterProvider.generate_guide) ----
    retryConfig,        \* the provider's max_retries setting: [set, value]
    json_error_retried, \* whether an undecodable body is a RequestException
    retry_attempt,      \* the loop variable "attempt"
    responses,          \* what each request met, in order
    sleeps,             \* the delays slept between requests, in order
    retryPhase,         \* "idle" | "calling" | "returned" | "raised"
    generated           \* what generate_guide returned

planVars  == <<planProvider, planCfg, total_duration, file_size_mb, float_loss,
               planPhase, windows>>
mergeVars == <<mergeProvider, transcriptions, mergePhase, combined_text>>
pipeVars  == <<processing_mode, config, environment, overwrite_existing, pipeline,
               model, api_provider, language, item, steps_run, attempts, result,
               audio_file, transcript_file, provider_call, preserve_intermediate,
               found, guide_file, guide_attempts, guide_input,
               cleanup>>
genVars   == <<genMode, genConfig, genEnv, genPhase, generator, genCall,
               gen_attempts, gen_result, genGuide>>

batchVars == <<video_files, batch_pos, in_flight, results, processed, cancelled,
               artifacts, batchPhase>>
chunkVars == <<chunkProvider, planned_windows, chunk_paths, chunk_index,
               requested, chunk_entries, chunkPhase, chunked_result>>
retryVars == <<retryConfig, json_error_retried, retry_attempt, responses, sleeps,
               retryPhase, generated>>

\* the variables an action of one part leaves alone: those of the other parts

VARIABLES
    \* ---- the progress tracker (utils.ProgressTracker) ----
    total_steps,        \* ProgressTracker.total_steps
    current_step,       \* ProgressTracker.current_step
    tracker_call,       \* the last call: "none" | "update" | "finish"
    step_before,        \* current_step when the last call began
    call_raised,        \* whether the last call raised
    tracker_calls       \* how many calls were made

trackVars == <<total_steps, current_step, tracker_call, step_before, call_raised,
               tracker_calls>>


VARIABLES
    \* ---- audio extraction (AudioExtractor.extract_audio) ----
    extract_env,        \* what the calls of extract_audio meet: [makedirs, run,
                        \* returncode, audio_after]
    run_calls,          \* how often subprocess.run was called
    extract_returned,          \* what extract_audio returned: "None" | "True" | "False"
    extractPhase        \* "idle" | "called" | "returned"

extractVars == <<extract_env, run_calls, extract_returned, extractPhase>>


VARIABLES
    \* ---- the local AI provider (OllamaProvider) ----
    model_installed,    \* whether the Ollama server has the configured model
    ollama_log,         \* one record for each call of generate_guide so far
    probe,              \* the last call of is_available: [health, result, raised]
    ollamaPhase         \* "idle" | "ready"

ollamaVars == <<model_installed, ollama_log, probe, ollamaPhase>>

exceptPlan  == <<mergeVars, pipeVars, genVars, batchVars, chunkVars, retryVars, trackVars, extractVars, ollamaVars>>
exceptMerge == <<planVars, pipeVars, genVars, batchVars, chunkVars, retryVars, trackVars, extractVars, ollamaVars>>
exceptPipe  == <<planVars, mergeVars, genVars, batchVars, chunkVars, retryVars, trackVars, extractVars, ollamaVars>>
exceptGen   == <<planVars, mergeVars, pipeVars, batchVars, chunkVars, retryVars, trackVars, extractVars, ollamaVars>>
exceptBatch == <<planVars, mergeVars, pipeVars, genVars, chunkVars, retryVars, trackVars, extractVars, ollamaVars>>
exceptChunk == <<planVars, mergeVars, pipeVars, genVars, batchVars, retryVars, trackVars, extractVars, ollamaVars>>
exceptRetry == <<planVars, mergeVars, pipeVars, genVars, batchVars, chunkVars, trackVars, extractVars, ollamaVars>>
exceptTrack == <<planVars, mergeVars, pipeVars, genVars, batchVars, chunkVars, retryVars, extractVars, ollamaVars>>
exceptExtract == <<planVars, mergeVars, pipeVars, genVars, batchVars, chunkVars, retryVars, trackVars, ollamaVars>>
exceptOllama == <<planVars, mergeVars, pipeVars, genVars, batchVars, chunkVars, retryVars, trackVars, extractVars>>

Providers == {"openrouter", "huggingface"}

Min(a, b) == IF a <= b THEN a ELSE b
Max(a, b) == IF a >= b THEN a ELSE b

(***************************************************************************)
(* Python string and list primitives used by the mergers.                  *)
(***************************************************************************)
\* str.lstrip() and str.rstrip(): one whitespace character at a time
RECURSIVE lstrip(_)
lstrip(s) == IF s = <<>> \/ Head(s) # " " THEN s ELSE lstrip(Tail(s))

RECURSIVE rstrip(_)
rstrip(s) ==
    IF s = <<>> \/ s[Len(s)] # " " THEN s ELSE rstrip(SubSeq(s, 1, Len(s) - 1))

\* str.strip(): leading and trailing whitespace removed
strip(s) == rstrip(lstrip(s))

\* positions of the non-whitespace characters of s
inkPositions(s) == {i \in 1..Len(s) : s[i] # " "}

\* str.split(): the maximal runs of non-whitespace characters, in order
split(s) ==
    LET starts == {i \in inkPositions(s) : i = 1 \/ s[i - 1] = " "}
        ends   == {i \in inkPositions(s) : i = Len(s) \/ s[i + 1] = " "}
        nth(S, k) == CHOOSE i \in S : Cardinality({j \in S : j <= i}) = k
    IN  [k \in 1..Cardinality(starts) |-> SubSeq(s, nth(starts, k), nth(ends, k))]

\* ' '.join(words)
RECURSIVE join(_)
join(ws) ==
    IF ws = <<>> THEN <<>>
    ELSE IF Len(ws) = 1 THEN ws[1]
    ELSE ws[1] \o <<" ">> \o join(Tail(ws))

\* s[-n:] for n >= 1
sliceLast(s, n) == IF Len(s) <= n THEN s ELSE SubSeq(s, Len(s) - n + 1, Len(s))
\* s[:n] for n >= 0
sliceFirst(s, n) == IF Len(s) <= n THEN s ELSE SubSeq(s, 1, n)
\* s[k:] for k >= 0
sliceFrom(s, k) == IF k >= Len(s) THEN <<>> ELSE SubSeq(s, k + 1, Len(s))

(***************************************************************************)
(* The overlap merger, providers/openrouter.py 242-288 and                 *)
(* providers/huggingface.py 216-258.  A transcription is a record          *)
(* [text, failed]; a failed chunk is recorded with text '' by both         *)
(* _transcribe_with_chunking loops.                                        *)
(***************************************************************************)
BoundaryChars == 50
MinBoundaryLen == 20
MaxOverlapWords == 50

\* "[All chunks failed transcription]"
AllChunksFailedText ==
    <<"[", "A", "l", "l", " ", "c", "h", "u", "n", "k", "s", " ", "f", "a", "i", "l", "e", "d", " ", "t", "r", "a", "n", "s", "c", "r", "i", "p", "t", "i", "o", "n", "]">>

\* valid_transcriptions: not failed and text.strip() non-empty
valid_transcriptions(ts) ==
    SelectSeq(ts, LAMBDA t : ~t.failed /\ strip(t.text) # <<>>)

\* for overlap_len in range(max_overlap, 0, -1): first (largest) length whose
\* trailing words equal the leading words; 0 when none matches
RECURSIVE longest_overlap(_, _, _)
longest_overlap(end_words, start_words, overlap_len) ==
    IF overlap_len <= 0 THEN 0
    ELSE IF sliceLast(end_words, overlap_len) = sliceFirst(start_words, overlap_len)
         THEN overlap_len
         ELSE longest_overlap(end_words, start_words, overlap_len - 1)

\* the number of words the OpenRouter loop finds the two texts to share: it
\* looks only if both texts are longer than 20 characters, and only at the
\* words of the last 50 and the first 50 characters
OR_overlap_len(merged_text, current_text) ==
    LET merged_end    == split(strip(sliceLast(merged_text, BoundaryChars)))
        current_start == split(strip(sliceFirst(current_text, BoundaryChars)))
    IN  IF Len(merged_text) > MinBoundaryLen /\ Len(current_text) > MinBoundaryLen
        THEN longest_overlap(merged_end, current_start,
                             Min(Len(merged_end), Len(current_start)))
        ELSE 0

\* the number of words the HuggingFace loop finds the two texts to share
HF_best_overlap(merged_text, current_text) ==
    LET merged_words  == split(merged_text)
        current_words == split(current_text)
    IN  longest_overlap(merged_words, current_words,
                        Min(MaxOverlapWords, Min(Len(merged_words), Len(current_words))))

\* one iteration of the OpenRouter loop (lines 259-286)
OR_merge_step(merged_text, current_text) ==
    IF strip(current_text) = <<>> THEN merged_text
    ELSE
    LET current_start == split(strip(sliceFirst(current_text, BoundaryChars)))
        overlap_len   == OR_overlap_len(merged_text, current_text)
        remaining_current == join(sliceFrom(current_start, overlap_len))
    IN  IF overlap_len > 0
        THEN IF strip(remaining_current) # <<>>
             THEN merged_text \o <<" ">> \o remaining_current
             ELSE merged_text
        ELSE merged_text \o <<" ">> \o current_text

\* one iteration of the HuggingFace loop (lines 234-256)
HF_merge_step(merged_text, current_text) ==
    LET current_words == split(current_text)
        best_overlap  == HF_best_overlap(merged_text, current_text)
    IN  IF best_overlap > 0
        THEN merged_text \o <<" ">> \o join(sliceFrom(current_words, best_overlap))
        ELSE merged_text \o <<" ">> \o current_text

merge_step(provider, merged_text, current_text) ==
    IF provider = "openrouter" THEN OR_merge_step(merged_text, current_text)
    ELSE HF_merge_step(merged_text, current_text)

\* for i in range(1, len(valid_transcriptions)): ...
RECURSIVE merge_loop(_, _, _, _)
merge_loop(provider, merged_text, valid, i) ==
    IF i > Len(valid) THEN merged_text
    ELSE merge_loop(provider, merge_step(provider, merged_text, valid[i].text),
                    valid, i + 1)

\* a slip the merger could make: the single valid chunk's text returned stripped,
\* as the merged text of several chunks is
merge_overlapping_transcriptions_strips(provider, ts) ==
    LET valid == valid_transcriptions(ts)
    IN  IF ts = <<>> THEN <<>>
        ELSE IF valid = <<>> THEN AllChunksFailedText
        ELSE strip(merge_loop(provider, valid[1].text, valid, 2))

\* _merge_overlapping_transcriptions of either provider
merge_overlapping_transcriptions(provider, ts) ==
    LET valid == valid_transcriptions(ts)
    IN  IF ts = <<>> THEN <<>>
        ELSE IF valid = <<>> THEN AllChunksFailedText
        ELSE IF Len(valid) = 1 THEN valid[1].text
        ELSE strip(merge_loop(provider, valid[1].text, valid, 2))

(***************************************************************************)
(* The audio chunk planner, _split_audio_file of providers/openrouter.py   *)
(* (151-240) and providers/huggingface.py (146-214).  A chunking           *)
(* configuration is a record [max_file_size_mb, target_chunk_size_mb,      *)
(* chunk_duration_seconds, chunk_overlap_seconds].                         *)
(***************************************************************************)
MinChunkDuration == 30
MinTailDuration == 15

\* int(a / b) for a >= 0 and b # 0: Python truncates towards zero
int_div(a, b) == IF b > 0 THEN a \div b ELSE 0 - (a \div (0 - b))

\* int(target_chunk_size_mb / (file_size_mb / total_duration) * 0.6).  The
\* quotient is computed exactly; when it is a whole number the binary floating
\* point product may fall just below it and int() then yields one less, so the
\* result is q or q - 1 there (loss is 0 or 1, the model's float_loss).
estimated_chunk_duration(cfg, total, size, loss) ==
    LET n == cfg.target_chunk_size_mb * total * 6
        d == size * 10
    IN  IF n % d = 0 THEN (n \div d) - loss ELSE n \div d

\* max_chunk_duration: the configured maximum or the size estimate, whichever is
\* smaller; only OpenRouter raises it to at least 30 seconds
max_chunk_duration(provider, cfg, total, size, loss) ==
    LET d == Min(cfg.chunk_duration_seconds,
                 estimated_chunk_duration(cfg, total, size, loss))
    IN  IF provider = "openrouter" THEN Max(MinChunkDuration, d) ELSE d

chunk_step(provider, cfg, total, size, loss) ==
    max_chunk_duration(provider, cfg, total, size, loss)
        - cfg.chunk_overlap_seconds

\* the loop's break conditions for window i
window_breaks(provider, start_time, actual_duration, total) ==
    IF provider = "openrouter"
    THEN start_time >= total \/ actual_duration < MinTailDuration
    ELSE actual_duration <= 0

\* for i in range(chunk_count): the loop appends window i until the first i
\* at which it breaks
split_loop(provider, chunk_count, step, duration, total) ==
    LET actual_duration(i) == Min(duration, total - i * step)
        breaking == {i \in 0..(chunk_count - 1) :
                        window_breaks(provider, i * step, actual_duration(i), total)}
        n == IF breaking = {} THEN Max(chunk_count, 0)
             ELSE CHOOSE i \in breaking : \A j \in breaking : i <= j
    IN  [k \in 1..n |-> [index |-> k - 1, start |-> (k - 1) * step,
                         duration |-> actual_duration(k - 1)]]

\* the windows _split_audio_file plans, or the error it raises
plan_windows(provider, cfg, total, size, loss) ==
    LET duration == max_chunk_duration(provider, cfg, total, size, loss)
        step     == chunk_step(provider, cfg, total, size, loss)
    IN  IF step = 0
        THEN [error |-> "ZeroDivisionError", windows |-> <<>>]
        ELSE [error |-> "none",
              windows |-> split_loop(provider, int_div(total, step) + 1,
                                     step, duration, total)]

(***************************************************************************)
(* Planner harness: the inputs are drawn in PlanInit; the provider's       *)
(* transcribe_audio dispatches on the file size and, for an oversized      *)
(* file, _split_audio_file plans the windows.                              *)
(***************************************************************************)
MaxDuration == 240

FileSizesMB == {4, 6, 8, 26, 40}

\* the defaults of OpenRouterProvider.__init__ and HuggingFaceProvider.__init__,
\* and three other configurations
OpenRouterDefaults ==
    [max_file_size_mb |-> 5, target_chunk_size_mb |-> 2,
     chunk_duration_seconds |-> 120, chunk_overlap_seconds |-> 10]
HuggingFaceDefaults ==
    [max_file_size_mb |-> 25, target_chunk_size_mb |-> 20,
     chunk_duration_seconds |-> 300, chunk_overlap_seconds |-> 10]
PlanCfgs ==
    {OpenRouterDefaults, HuggingFaceDefaults,
     [max_file_size_mb |-> 5, target_chunk_size_mb |-> 2,
      chunk_duration_seconds |-> 40, chunk_overlap_seconds |-> 10],
     [max_file_size_mb |-> 5, target_chunk_size_mb |-> 4,
      chunk_duration_seconds |-> 60, chunk_overlap_seconds |-> 0],
     [max_file_size_mb |-> 5, target_chunk_size_mb |-> 4,
      chunk_duration_seconds |-> 50, chunk_overlap_seconds |-> 20]}

PlanIdle ==
    /\ planProvider = "none" /\ planCfg = OpenRouterDefaults
    /\ total_duration = 0 /\ file_size_mb = 0 /\ float_loss = 0
    /\ planPhase = "idle" /\ windows = <<>>

MergeIdle ==
    /\ mergeProvider = "none" /\ transcriptions = <<>>
    /\ mergePhase = "idle" /\ combined_text = <<>>

\* transcribe_audio returned None
NoneResult == [kind |-> "None", text |-> <<>>, provider |-> "absent", method |-> "absent"]

\* no file at the path
NoFile == [exists |-> FALSE, text |-> <<>>]

\* the remote provider was not called
NoCall == [kind |-> "none", http |-> "ok", chunks |-> <<>>]

\* no guide file at the path (the text of a guide says who wrote it)
NoGuide == [exists |-> FALSE, text |-> ""]

\* nothing was found for the video
NothingFound == [audio |-> FALSE, transcript |-> NoFile, readable |-> TRUE,
                 guide |-> NoGuide]

PipelineIdle ==
    /\ processing_mode = "basic"
    /\ config = [provider |-> "openrouter", fallback_to_local |-> "absent"]
    /\ environment = [whisper_available |-> TRUE, model_loadable |-> TRUE,
                      api_key_present |-> TRUE]
    /\ overwrite_existing = FALSE
    /\ pipeline = "idle" /\ model = "None" /\ api_provider = "None"
    /\ language = "unset" /\ item = "idle"
    /\ steps_run = <<>> /\ attempts = <<>> /\ result = NoneResult
    /\ audio_file = FALSE /\ transcript_file = NoFile /\ provider_call = NoCall
    /\ preserve_intermediate = FALSE /\ found = NothingFound
    /\ guide_file = NoGuide /\ guide_attempts = <<>> /\ guide_input = <<>>
    /\ cleanup = "none"

\* the GuideGenerator was not constructed
NoGenerator == [template_ready |-> FALSE, ollama_provider |-> FALSE,
                api_provider |-> "None"]

\* generate_guide was not called
NoGenCall == [api |-> "none", api_save |-> "ok", ollama_up |-> FALSE,
              ollama |-> "none", ollama_save |-> "ok", template |-> "none",
              template_save |-> "ok"]

GenIdle ==
    /\ genMode = "basic"
    /\ genConfig = [provider |-> "openrouter", fallback_to_local_ai |-> "absent",
                    fallback_to_template |-> "absent"]
    /\ genEnv = [api_key_present |-> TRUE, ollama_at_startup |-> TRUE]
    /\ genPhase = "idle" /\ generator = NoGenerator /\ genCall = NoGenCall
    /\ gen_attempts = <<>> /\ gen_result = FALSE /\ genGuide = NoGuide

\* no entry in the map of results
NoResults == [v \in {} |-> FALSE]

BatchIdle ==
    /\ video_files = <<>> /\ batch_pos = 1 /\ in_flight = "none"
    /\ results = NoResults /\ processed = <<>> /\ cancelled = FALSE
    /\ artifacts = {} /\ batchPhase = "idle"

\* _transcribe_with_chunking has not returned
NoChunkedResult == [text |-> <<>>, failed |-> FALSE]

ChunkIdle ==
    /\ chunkProvider = "openrouter" /\ planned_windows = 0
    /\ chunk_paths = <<>> /\ chunk_index = 1
    /\ requested = <<>> /\ chunk_entries = <<>> /\ chunkPhase = "idle"
    /\ chunked_result = NoChunkedResult

RetryIdle ==
    /\ retryConfig = [set |-> FALSE, value |-> 0] /\ json_error_retried = FALSE
    /\ retry_attempt = 0 /\ responses = <<>> /\ sleeps = <<>>
    /\ retryPhase = "idle" /\ generated = "None"


TrackerIdle ==
    /\ total_steps = 0 /\ current_step = 0 /\ tracker_call = "idle"
    /\ step_before = 0 /\ call_raised = FALSE /\ tracker_calls = 0


ExtractIdle ==
    /\ extract_env = [makedirs |-> "ok", run |-> "returned", returncode |-> 0,
                      audio_after |-> "content"]
    /\ run_calls = 0 /\ extract_returned = "None" /\ extractPhase = "idle"


NoProbe == [health |-> "none", result |-> FALSE, raised |-> FALSE]

OllamaIdle ==
    /\ model_installed = FALSE /\ ollama_log = <<>> /\ probe = NoProbe
    /\ ollamaPhase = "idle"

\* the parts that have a specification of their own further down are idle
LaterPartsIdle == BatchIdle /\ ChunkIdle /\ RetryIdle /\ TrackerIdle /\ ExtractIdle /\ OllamaIdle

PlanInit ==
    /\ planProvider \in Providers
    /\ planCfg \in PlanCfgs
    /\ total_duration \in 1..MaxDuration
    /\ file_size_mb \in FileSizesMB
    /\ float_loss \in {0, 1}
    /\ planPhase = "input"
    /\ windows = <<>>
    /\ MergeIdle
    /\ PipelineIdle
    /\ GenIdle
    /\ LaterPartsIdle

\* transcribe_audio: file_size_mb <= max_file_size_mb, the file is sent whole
TranscribeDirect ==
    /\ planPhase = "input"
    /\ file_size_mb <= planCfg.max_file_size_mb
    /\ planPhase' = "direct"
    /\ UNCHANGED <<planProvider, planCfg, total_duration, file_size_mb, float_loss,
                   windows, exceptPlan>>

\* transcribe_audio: the file is too large, _transcribe_with_chunking calls
\* _split_audio_file
SplitAudioFile ==
    /\ planPhase = "input"
    /\ file_size_mb > planCfg.max_file_size_mb
    /\ LET r == plan_windows(planProvider, planCfg, total_duration, file_size_mb,
                             float_loss)
       IN  /\ planPhase' = IF r.error = "none" THEN "planned" ELSE "error"
           /\ windows' = r.windows
    /\ UNCHANGED <<planProvider, planCfg, total_duration, file_size_mb, float_loss,
                   exceptPlan>>

PlanNext == TranscribeDirect \/ SplitAudioFile

vars == <<planVars, mergeVars, pipeVars, genVars, batchVars, chunkVars, retryVars, trackVars, extractVars, ollamaVars>>

SpecPlan == PlanInit /\ [][PlanNext]_vars

\* the step the plan was made with
PlanStep ==
    chunk_step(planProvider, planCfg, total_duration, file_size_mb, float_loss)

\* second t of the audio lies in one of the planned windows
Covered(t) ==
    \E k \in DOMAIN windows :
        windows[k].start <= t /\ t < windows[k].start + windows[k].duration

\* C1: for every total duration > 0 and every configuration with a positive
\* step, the windows planned for an oversized file cover [0, total_duration)
\* without a gap, also after a short trailing window was dropped.
C1_PlanCoversDuration ==
    (planPhase = "planned" /\ PlanStep > 0)
        => \A t \in 0..(total_duration - 1) : Covered(t)

\* the HuggingFace planner, which drops no trailing window, leaves no gap
HuggingFacePlanCovers ==
    (planPhase = "planned" /\ PlanStep > 0 /\ planProvider = "huggingface")
        => \A t \in 0..(total_duration - 1) : Covered(t)

(***************************************************************************)
(* Merger harness: the chunk results are drawn in MergeInit and            *)
(* _merge_overlapping_transcriptions is applied to them.  A chunk result   *)
(* is a failed entry (text '') or the text of a successful chunk: a        *)
(* sequence of words of the vocabulary joined by single spaces.            *)
(* HuggingFace's _transcribe_single_file strips the text it returns;       *)
(* OpenRouter's returns the API's text as it is, which may start with      *)
(* whitespace (padded).                                                    *)
(***************************************************************************)
MaxChunks == 3
MaxWords == 2
MaxTotalWords == 4

run(c, n) == [i \in 1..n |-> c]

\* a one-letter word, a word as long as the boundary window and a longer one
Vocabulary == {run("b", 1), run("a", BoundaryChars), run("a", BoundaryChars + 10)}

\* the texts of the two chunks of the quick-brown-fox example
ExampleA ==
    <<"t", "h", "e", " ", "q", "u", "i", "c", "k", " ", "b", "r", "o", "w", "n", " ", "f", "o", "x", " ", "j", "u", "m", "p", "s">>
ExampleB ==
    <<"f", "o", "x", " ", "j", "u", "m", "p", "s", " ", "o", "v", "e", "r", " ", "t", "h", "e", " ", "l", "a", "z", "y", " ", "d", "o", "g">>

FailedChunk == [text |-> <<>>, failed |-> TRUE]
OkChunk(t) == [text |-> t, failed |-> FALSE]

chunk_text(ws, padded) == IF padded THEN <<" ">> \o join(ws) ELSE join(ws)

RECURSIVE SumTo(_, _)
SumTo(counts, k) ==
    IF k = 0 THEN 0 ELSE SumTo(counts, k - 1) + Max(counts[k], 0)

\* the chunk results with counts[i] words in chunk i (-1: a failed chunk), the
\* words taken in order from ws
ChunkResults(counts, ws, padded) ==
    [i \in DOMAIN counts |->
        IF counts[i] < 0 THEN FailedChunk
        ELSE OkChunk(chunk_text(SubSeq(ws, SumTo(counts, i - 1) + 1,
                                       SumTo(counts, i)), padded))]

WordCounts ==
    {counts \in UNION {[1..k -> -1..MaxWords] : k \in 0..MaxChunks} :
        SumTo(counts, Len(counts)) <= MaxTotalWords}

MergeInit ==
    /\ mergeProvider \in Providers
    /\ \/ \E padded \in BOOLEAN, counts \in WordCounts :
            /\ padded => mergeProvider = "openrouter"
            /\ \E ws \in [1..SumTo(counts, Len(counts)) -> Vocabulary] :
                    transcriptions = ChunkResults(counts, ws, padded)
       \/ transcriptions \in {<<OkChunk(ExampleA), OkChunk(ExampleB)>>,
                              <<OkChunk(ExampleA), FailedChunk, OkChunk(ExampleB)>>}
    /\ mergePhase = "input"
    /\ combined_text = <<>>
    /\ PlanIdle
    /\ PipelineIdle
    /\ GenIdle
    /\ LaterPartsIdle

\* combined_text = self._merge_overlapping_transcriptions(transcriptions)
MergeTranscriptions ==
    /\ mergePhase = "input"
    /\ combined_text' = merge_overlapping_transcriptions(mergeProvider, transcriptions)
    /\ mergePhase' = "merged"
    /\ UNCHANGED <<mergeProvider, transcriptions, exceptMerge>>

MergeNext == MergeTranscriptions

SpecMerge == MergeInit /\ [][MergeNext]_vars

(***************************************************************************)
(* Statements about the merger.  They are phrased over the words of the    *)
(* successful chunks, independently of either provider's loop.             *)
(***************************************************************************)
\* the successful chunks' texts, in order
SuccessfulTexts ==
    LET ok == SelectSeq(transcriptions, LAMBDA t : ~t.failed)
    IN  [i \in DOMAIN ok |-> ok[i].text]

\* a text of one or more words separated by single spaces, nothing around them
Clean(t) == t # <<>> /\ t = join(split(t))

AllClean == \A i \in DOMAIN SuccessfulTexts : Clean(SuccessfulTexts[i])

\* the longest L >= 1 (up to 50) with the last L words of a equal to the first
\* L words of b; 0 when there is none
WordOverlap(a, b) ==
    LET Ls == {L \in 1..Min(MaxOverlapWords, Min(Len(a), Len(b))) :
                  SubSeq(a, Len(a) - L + 1, Len(a)) = SubSeq(b, 1, L)}
    IN  IF Ls = {} THEN 0 ELSE CHOOSE L \in Ls : \A M \in Ls : M <= L

\* the words of the merged text after chunks 1..i: each chunk contributes its
\* words after the overlap with the words merged so far
RECURSIVE MergedWords(_)
MergedWords(i) ==
    IF i = 0 THEN <<>>
    ELSE IF i = 1 THEN split(SuccessfulTexts[1])
    ELSE LET before == MergedWords(i - 1)
             next   == split(SuccessfulTexts[i])
         IN  before \o SubSeq(next, WordOverlap(before, next) + 1, Len(next))

\* some chunk after the first starts with words the merged text ends with
SomeOverlap ==
    \E i \in 2..Len(SuccessfulTexts) :
        WordOverlap(MergedWords(i - 1), split(SuccessfulTexts[i])) > 0

RECURSIVE AllWords(_)
AllWords(i) == IF i = 0 THEN <<>> ELSE AllWords(i - 1) \o split(SuccessfulTexts[i])

\* C3: when the end of the merged text and the start of the next successful
\* chunk share L words (the longest such L), the merged text grows by exactly
\* the chunk's words after position L, for either provider and texts of any
\* length.
C3_OverlapAppendsRemainder ==
    (mergePhase = "merged" /\ AllClean /\ SomeOverlap)
        => split(combined_text) = MergedWords(Len(SuccessfulTexts))

\* C4: successful chunks none of which starts with words the merged text ends
\* with are merged to their texts in order, one space between two chunks.
C4_NoOverlapConcatenates ==
    (mergePhase = "merged" /\ AllClean /\ Len(SuccessfulTexts) >= 1 /\ ~SomeOverlap)
        => combined_text = join(AllWords(Len(SuccessfulTexts)))

Modes == {"basic", "local_ai", "api_transcription", "api_generation", "full_api",
          "hybrid"}

\* transcription.api.provider: the two known names and any other
ProviderNames == Providers \cup {"other"}

\* a boolean configuration key: missing, true or false
ConfigFlags == {"absent", "true", "false"}

\* dict.get(key, default)
config_get(flag, default) == IF flag = "absent" THEN default ELSE flag = "true"

\* __init__, the modes in which _setup_local_transcription is called
LocalSetupModes == {"basic", "local_ai", "hybrid", "api_generation", "full_api"}

\* __init__, the modes in which _setup_api_transcription is called
ApiSetupModes == {"api_transcription", "full_api", "hybrid"}

\* transcribe_audio, the modes in which the remote provider is tried first
ApiFirstModes == {"api_transcription", "full_api"}

\* _load_model: whisper.load_model succeeds, or fails and is re-raised in
\* basic mode only
load_model(mode, env) ==
    IF env.model_loadable
    THEN [raised |-> FALSE, model |-> "loaded"]
    ELSE [raised |-> mode = "basic", model |-> "None"]

\* a slip the setup could make: a missing whisper package tolerated in basic
\* mode as it is in the others
setup_local_transcription_lenient(mode, env) ==
    IF ~env.whisper_available
    THEN [raised |-> FALSE, model |-> "None", language |-> "unset"]
    ELSE [raised |-> load_model(mode, env).raised,
          model |-> load_model(mode, env).model, language |-> "set"]

\* _setup_local_transcription
setup_local_transcription(mode, env) ==
    IF ~env.whisper_available
    THEN [raised |-> mode = "basic", model |-> "None", language |-> "unset"]
    ELSE [raised |-> load_model(mode, env).raised,
          model |-> load_model(mode, env).model, language |-> "set"]

\* _setup_api_transcription: the provider's constructor raises when the API
\* key is missing; the error is re-raised in the API modes unless
\* fallback_to_local (default False here) is set
setup_api_transcription(mode, cfg, env) ==
    IF cfg.provider \notin Providers
    THEN [raised |-> FALSE, api_provider |-> "None"]
    ELSE IF env.api_key_present
    THEN [raised |-> FALSE, api_provider |-> cfg.provider]
    ELSE [raised |-> /\ mode \in ApiFirstModes
                     /\ ~config_get(cfg.fallback_to_local, FALSE),
          api_provider |-> "None"]

\* Transcriber.__init__
Transcriber_init(mode, cfg, env) ==
    LET local == IF mode \in LocalSetupModes
                 THEN setup_local_transcription(mode, env)
                 ELSE [raised |-> FALSE, model |-> "None", language |-> "unset"]
        api   == IF mode \in ApiSetupModes /\ ~local.raised
                 THEN setup_api_transcription(mode, cfg, env)
                 ELSE [raised |-> FALSE, api_provider |-> "None"]
    IN  [raised |-> local.raised \/ api.raised, model |-> local.model,
         language |-> local.language, api_provider |-> api.api_provider]

(***************************************************************************)
(* The remote provider's transcribe_audio as the Transcriber meets it.  A  *)
(* call is [kind, http, chunks]: the file is sent whole ("single", with    *)
(* the outcome of the request in http), or it is oversized and splitting   *)
(* raises ("split_error"), or it is split and chunks lists the outcome of   *)
(* the request for each chunk file.                                        *)
(***************************************************************************)
MaxApiChunks == 2

\* what a request returns: a text, an empty text, or an exception
RequestOutcomes == {"ok", "blank", "raise"}

ApiText   == <<"a">>
LocalText == <<" ", "b">>
OldText   == <<"o">>

\* "[Transcription failed: <message>]", the exception's message being "e"
TranscriptionFailedText ==
    <<"[", "T", "r", "a", "n", "s", "c", "r", "i", "p", "t", "i", "o", "n", " ",
      "f", "a", "i", "l", "e", "d", ":", " ", "e", "]">>

NoChunksText ==
    <<"[", "N", "o", " ", "a", "u", "d", "i", "o", " ", "c", "h", "u", "n", "k",
      "s", " ", "c", "r", "e", "a", "t", "e", "d", "]">>

ApiCalls ==
    {[kind |-> "single", http |-> h, chunks |-> <<>>] : h \in RequestOutcomes}
    \cup {[kind |-> "split_error", http |-> "ok", chunks |-> <<>>]}
    \cup {[kind |-> "chunked", http |-> "ok", chunks |-> cs] :
            cs \in UNION {[1..k -> RequestOutcomes] : k \in 0..MaxApiChunks}}

\* the text a successful request returns
response_text(outcome) == IF outcome = "ok" THEN ApiText ELSE <<>>

\* _transcribe_with_chunking, the loop over chunk_paths: one entry per chunk,
\* marked failed when the request raised
chunk_transcriptions(chunks) ==
    [i \in 1..Len(chunks) |->
        IF chunks[i] = "raise" THEN FailedChunk
        ELSE OkChunk(response_text(chunks[i]))]

\* an exception inside provider.transcribe_audio: the OpenRouter provider
\* re-raises it, the HuggingFace provider returns a result marked failed
provider_error(provider) ==
    IF provider = "openrouter"
    THEN [raised |-> TRUE, text |-> <<>>, provider |-> provider, failed |-> FALSE]
    ELSE [raised |-> FALSE, text |-> TranscriptionFailedText,
          provider |-> provider, failed |-> TRUE]

\* provider.transcribe_audio of either provider
provider_transcribe_audio(provider, call) ==
    IF call.kind = "single"
    THEN IF call.http = "raise" THEN provider_error(provider)
         ELSE [raised |-> FALSE, text |-> response_text(call.http),
               provider |-> provider, failed |-> FALSE]
    ELSE IF call.kind = "split_error" THEN provider_error(provider)
    ELSE IF provider = "huggingface" /\ call.chunks = <<>>
    THEN [raised |-> FALSE, text |-> NoChunksText, provider |-> provider,
          failed |-> TRUE]
    ELSE [raised |-> FALSE,
          text |-> merge_overlapping_transcriptions(
                       provider, chunk_transcriptions(call.chunks)),
          provider |-> provider, failed |-> FALSE]

\* _enhance_api_result: the text with metadata.provider and metadata.method
enhance_api_result(api_result) ==
    [kind |-> "result", text |-> api_result.text,
     provider |-> api_result.provider, method |-> "api"]

\* _enhance_transcription_result: the stripped text; the metadata has neither
\* a provider nor a method entry
enhance_transcription_result(text) ==
    [kind |-> "result", text |-> strip(text), provider |-> "absent",
     method |-> "absent"]

\* how _save_transcription can end: both files written, the text file written
\* and the JSON file not, or nothing written
SaveOutcomes == {"ok", "text_only", "nothing"}

\* _save_transcription
save_transcription(file, res, save) ==
    [ok   |-> save = "ok",
     file |-> IF save = "nothing" THEN file
              ELSE [exists |-> TRUE, text |-> res.text]]

\* a slip the local path could make: the model used without the check that
\* it was loaded
transcribe_local_unguarded(mdl, file, tried, local, local_save) ==
    LET enhanced == enhance_transcription_result(LocalText)
        saved    == save_transcription(file, enhanced, local_save)
    IN  IF local = "raise"
        THEN [result |-> NoneResult, attempts |-> Append(tried, "local"),
              file |-> file]
        ELSE [result |-> IF saved.ok THEN enhanced ELSE NoneResult,
              attempts |-> Append(tried, "local"), file |-> saved.file]

\* _transcribe_local
transcribe_local(mdl, file, tried, local, local_save) ==
    LET enhanced == enhance_transcription_result(LocalText)
        saved    == save_transcription(file, enhanced, local_save)
    IN  IF mdl = "None"
        THEN [result |-> NoneResult, attempts |-> tried, file |-> file]
        ELSE IF local = "raise"
        THEN [result |-> NoneResult, attempts |-> Append(tried, "local"),
              file |-> file]
        ELSE [result |-> IF saved.ok THEN enhanced ELSE NoneResult,
              attempts |-> Append(tried, "local"), file |-> saved.file]

\* whether transcribe_audio tries the remote provider
api_first(mode, provider) == mode \in ApiFirstModes /\ provider # "None"

\* Transcriber.transcribe_audio
transcribe_audio(mode, cfg, provider, mdl, audio_exists, file, call, api_save, local, local_save) ==
    LET api_result == provider_transcribe_audio(provider, call)
        enhanced   == enhance_api_result(api_result)
        saved      == save_transcription(file, enhanced, api_save)
    IN  IF ~audio_exists
        THEN [result |-> NoneResult, attempts |-> <<>>, file |-> file]
        ELSE IF ~api_first(mode, provider)
        THEN transcribe_local(mdl, file, <<>>, local, local_save)
        ELSE IF api_result.raised
        THEN IF ~config_get(cfg.fallback_to_local, TRUE)
             THEN [result |-> NoneResult, attempts |-> <<"api">>, file |-> file]
             ELSE transcribe_local(mdl, file, <<"api">>, local, local_save)
        ELSE IF saved.ok
        THEN [result |-> enhanced, attempts |-> <<"api">>, file |-> saved.file]
        ELSE transcribe_local(mdl, saved.file, <<"api">>, local, local_save)

(***************************************************************************)
(* The GuideGenerator, guide_generator.py.  Its constructor sets up the    *)
(* template generation, the local AI (Ollama) and the remote provider      *)
(* according to the processing mode; generate_guide then tries the remote  *)
(* provider, the local AI and the template, and writes the guide.          *)
(***************************************************************************)

\* guide_generation.api.provider: only openrouter is known to the generator
GenProviderNames == {"openrouter", "other"}

\* __init__, the modes in which _setup_template_generation is called
TemplateSetupModes == {"basic", "hybrid", "local_ai", "api_generation", "full_api"}

\* __init__, the modes in which _setup_local_ai is called, and generate_guide,
\* the modes in which the local AI is tried
LocalAiModes == {"local_ai", "hybrid"}

\* __init__, the modes in which _setup_api_generation is called
ApiGenSetupModes == {"api_generation", "full_api", "hybrid"}

\* generate_guide, the modes in which the remote provider is tried
ApiGenModes == {"api_generation", "full_api"}

\* _setup_local_ai: the provider object is created; a server that does not
\* answer is an error in local_ai mode only when fallback_to_template is false
setup_local_ai(mode, cfg, env) ==
    [raised |-> /\ ~env.ollama_at_startup /\ mode = "local_ai"
                /\ ~config_get(cfg.fallback_to_template, TRUE),
     ollama_provider |-> TRUE]

\* _setup_api_generation: the provider's constructor raises when the API key
\* is missing; the error is re-raised in api_generation and full_api when
\* fallback_to_local_ai is false
setup_api_generation(mode, cfg, env) ==
    IF cfg.provider # "openrouter"
    THEN [raised |-> FALSE, api_provider |-> "None"]
    ELSE IF env.api_key_present
    THEN [raised |-> FALSE, api_provider |-> "openrouter"]
    ELSE [raised |-> /\ mode \in ApiGenModes
                     /\ ~config_get(cfg.fallback_to_local_ai, TRUE),
          api_provider |-> "None"]

\* GuideGenerator.__init__
GuideGenerator_init(mode, cfg, env) ==
    LET local == IF mode \in LocalAiModes THEN setup_local_ai(mode, cfg, env)
                 ELSE [raised |-> FALSE, ollama_provider |-> FALSE]
        api   == IF mode \in ApiGenSetupModes /\ ~local.raised
                 THEN setup_api_generation(mode, cfg, env)
                 ELSE [raised |-> FALSE, api_provider |-> "None"]
    IN  [raised |-> local.raised \/ api.raised,
         template_ready |-> mode \in TemplateSetupModes,
         ollama_provider |-> local.ollama_provider,
         api_provider |-> api.api_provider]

\* what a generator hands back: a guide text, or None (the remote provider
\* with max_retries 0), or an exception
GenOutcomes == {"content", "none", "raise"}

\* how _save_guide can end
GuideSaveOutcomes == {"ok", "fail"}

\* _save_guide: the file is opened for writing and the content written; None
\* cannot be written, which leaves the opened file empty
save_guide(file, content, save) ==
    IF save = "fail" THEN [ok |-> FALSE, file |-> file]
    ELSE IF content = "None" THEN [ok |-> FALSE, file |-> [exists |-> TRUE, text |-> ""]]
    ELSE [ok |-> TRUE, file |-> [exists |-> TRUE, text |-> content]]

\* the text of a guide by who wrote it; "None" where the provider returned None
guide_content(by, outcome) == IF outcome = "none" THEN "None" ELSE by

\* a slip _generate_template_guide could make: True returned whether or not
\* the guide was saved
generate_template_guide_unsaved(gen, file, tried, call) ==
    LET saved == save_guide(file, "template", call.template_save)
    IN  IF ~gen.template_ready \/ call.template # "content"
        THEN [result |-> FALSE, attempts |-> Append(tried, "template"), file |-> file]
        ELSE [result |-> TRUE, attempts |-> Append(tried, "template"),
              file |-> saved.file]

\* _generate_template_guide: self.default_template and self.jinja_env exist
\* only after _setup_template_generation; an exception, or an empty rendering,
\* or a failed save make it return False
generate_template_guide(gen, file, tried, call) ==
    LET saved == save_guide(file, "template", call.template_save)
    IN  IF ~gen.template_ready \/ call.template # "content"
        THEN [result |-> FALSE, attempts |-> Append(tried, "template"), file |-> file]
        ELSE [result |-> saved.ok, attempts |-> Append(tried, "template"),
              file |-> saved.file]

\* generate_guide, from "Try local AI generation" on
generate_local_ai_guide(mode, gen, cfg, file, tried, call) ==
    LET saved == save_guide(file, guide_content("local_ai", call.ollama),
                            call.ollama_save)
        here  == Append(tried, "local_ai")
    IN  IF ~(mode \in LocalAiModes /\ gen.ollama_provider) \/ ~call.ollama_up
        THEN generate_template_guide(gen, file, tried, call)
        ELSE IF call.ollama = "raise"
        THEN IF ~config_get(cfg.fallback_to_template, TRUE)
             THEN [result |-> FALSE, attempts |-> here, file |-> file]
             ELSE generate_template_guide(gen, file, here, call)
        ELSE IF saved.ok
        THEN [result |-> TRUE, attempts |-> here, file |-> saved.file]
        ELSE generate_template_guide(gen, saved.file, here, call)

\* whether generate_guide tries the remote provider
api_gen_first(mode, gen) == mode \in ApiGenModes /\ gen.api_provider # "None"

\* GuideGenerator.generate_guide
generate_guide(mode, gen, cfg, file, call) ==
    LET saved == save_guide(file, guide_content("api", call.api), call.api_save)
    IN  IF ~api_gen_first(mode, gen)
        THEN generate_local_ai_guide(mode, gen, cfg, file, <<>>, call)
        ELSE IF call.api = "raise"
        THEN IF ~config_get(cfg.fallback_to_local_ai, TRUE)
             THEN [result |-> FALSE, attempts |-> <<"api">>, file |-> file]
             ELSE generate_local_ai_guide(mode, gen, cfg, file, <<"api">>, call)
        ELSE IF saved.ok
        THEN [result |-> TRUE, attempts |-> <<"api">>, file |-> saved.file]
        ELSE generate_local_ai_guide(mode, gen, cfg, saved.file, <<"api">>, call)

\* the inputs of one call of generate_guide that the generator can meet
GenCalls(mode, gen) ==
    LET api_tried   == api_gen_first(mode, gen)
        local_tried == mode \in LocalAiModes /\ gen.ollama_provider
    IN  [api           : IF api_tried THEN GenOutcomes ELSE {"none"},
         api_save      : IF api_tried THEN GuideSaveOutcomes ELSE {"ok"},
         ollama_up     : IF local_tried THEN BOOLEAN ELSE {FALSE},
         ollama        : IF local_tried THEN {"content", "raise"} ELSE {"none"},
         ollama_save   : IF local_tried THEN GuideSaveOutcomes ELSE {"ok"},
         template      : {"content", "empty", "raise"},
         template_save : GuideSaveOutcomes]

(***************************************************************************)
(* The pipeline, scripts/process_videos.py: VideoPipeline is constructed   *)
(* and one video is taken through process_single_video: the check of the   *)
(* video and of an existing guide, then the extraction, transcription and  *)
(* generation steps, then the cleanup of the extracted audio.              *)
(***************************************************************************)

\* GuideGenerator.__init__ can raise only where _setup_local_ai or
\* _setup_api_generation re-raise: in local_ai, api_generation and full_api
guide_generator_raises(mode) ==
    IF mode \in {"local_ai", "api_generation", "full_api"} THEN BOOLEAN ELSE {FALSE}

\* the guide_generation section of the configuration, and what the generator's
\* constructor finds around it
GenSettings ==
    [provider : GenProviderNames, fallback_to_local_ai : ConfigFlags,
     fallback_to_template : ConfigFlags]
GenEnvironments == [api_key_present : BOOLEAN, ollama_at_startup : BOOLEAN]

\* the guide file as a video can find it
GuideFiles == {NoGuide, [exists |-> TRUE, text |-> "old"]}

\* the generators a pipeline of the mode can hold, each with its settings
GeneratorSetups(mode) ==
    {[gen |-> GuideGenerator_init(mode, ce[1], ce[2]), cfg |-> ce[1]] :
        ce \in {x \in GenSettings \X GenEnvironments :
                    ~GuideGenerator_init(mode, x[1], x[2]).raised}}

\* self.guide_generator.generate_guide(...): what the call can return and
\* leave at the guide path, for the mode and the guide file it finds
guide_outcomes ==
    [mode \in Modes |-> [file \in GuideFiles |->
        UNION {{generate_guide(mode, s.gen, s.cfg, file, call) :
                    call \in GenCalls(mode, s.gen)} : s \in GeneratorSetups(mode)}]]

\* a slip the steps could make: an artifact that exists reused although
\* overwriting was asked for
skip_existing_always(exists, overwrite) == exists

\* "os.path.exists(path) and not self.overwrite_existing": the step is skipped
skip_existing(exists, overwrite) == exists /\ ~overwrite

\* a slip process_single_video could make: going on after a failed step
stage_next_regardless(ok, next) == next

\* process_single_video, "if not <step>: return False"
stage_next(ok, next) == IF ok THEN next ELSE "failed"

pipeSettings == <<processing_mode, config, environment, overwrite_existing,
                  preserve_intermediate, found>>

PipelineInit ==
    /\ processing_mode \in Modes
    /\ config \in [provider : ProviderNames, fallback_to_local : ConfigFlags]
    /\ environment \in [whisper_available : BOOLEAN, model_loadable : BOOLEAN,
                        api_key_present : BOOLEAN]
    /\ overwrite_existing \in BOOLEAN
    /\ preserve_intermediate \in BOOLEAN
    /\ pipeline = "new" /\ model = "None" /\ api_provider = "None"
    /\ language = "unset" /\ item = "pending"
    /\ steps_run = <<>> /\ attempts = <<>> /\ result = NoneResult
    /\ audio_file \in BOOLEAN
    /\ transcript_file \in {NoFile, [exists |-> TRUE, text |-> OldText]}
    /\ guide_file \in GuideFiles
    /\ \E readable \in (IF transcript_file.exists THEN BOOLEAN ELSE {TRUE}) :
          found = [audio |-> audio_file, transcript |-> transcript_file,
                   readable |-> readable, guide |-> guide_file]
    /\ provider_call = NoCall /\ guide_attempts = <<>> /\ guide_input = <<>>
    /\ cleanup = "none"
    /\ PlanIdle /\ MergeIdle /\ GenIdle /\ LaterPartsIdle

\* main: pipeline = VideoPipeline(config, mode); an exception ends the run
ConstructPipeline ==
    /\ pipeline = "new"
    /\ LET t == Transcriber_init(processing_mode, config, environment)
       IN  \E g \in guide_generator_raises(processing_mode) :
              IF t.raised \/ g
              THEN /\ pipeline' = "raised"
                   /\ UNCHANGED <<model, api_provider, language>>
              ELSE /\ pipeline' = "constructed"
                   /\ model' = t.model
                   /\ api_provider' = t.api_provider
                   /\ language' = t.language
    /\ UNCHANGED <<pipeSettings, cleanup, item, steps_run, attempts, result, audio_file,
                   transcript_file, provider_call, guide_file, guide_attempts,
                   guide_input, exceptPipe>>

\* process_single_video, before the steps: a video that is not valid fails,
\* and a guide that exists (overwriting not asked for) ends the video as done
StartItem ==
    /\ pipeline = "constructed" /\ item = "pending"
    /\ \E valid \in BOOLEAN :
          item' = IF skip_existing(guide_file.exists, overwrite_existing)
                  THEN stage_next(valid, "done") ELSE stage_next(valid, "started")
    /\ UNCHANGED <<pipeSettings, cleanup, pipeline, model, api_provider, language,
                   steps_run, attempts, result, audio_file, transcript_file,
                   provider_call, guide_file, guide_attempts, guide_input,
                   exceptPipe>>

\* process_single_video, step 1: _extract_audio_step
ExtractAudioStep ==
    /\ pipeline = "constructed" /\ item = "started"
    /\ IF skip_existing(audio_file, overwrite_existing)
       THEN /\ item' = "audio_ready"
            /\ UNCHANGED <<steps_run, audio_file>>
       ELSE \E extracted \in BOOLEAN :
               /\ steps_run' = Append(steps_run, "extract")
               /\ audio_file' = extracted
               /\ item' = stage_next(extracted, "audio_ready")
    /\ UNCHANGED <<pipeSettings, cleanup, pipeline, model, api_provider, language,
                   attempts, result, transcript_file, provider_call, guide_file,
                   guide_attempts, guide_input, exceptPipe>>

\* process_single_video, step 2: _transcribe_audio_step finds the
\* transcription file and loads it
ReuseTranscription ==
    /\ pipeline = "constructed" /\ item = "audio_ready"
    /\ skip_existing(transcript_file.exists, overwrite_existing)
    /\ found.readable
    /\ result' = [kind |-> "loaded", text |-> transcript_file.text,
                  provider |-> "absent", method |-> "absent"]
    /\ item' = "transcribed"
    /\ UNCHANGED <<pipeSettings, cleanup, pipeline, model, api_provider, language,
                   steps_run, attempts, audio_file, transcript_file,
                   provider_call, guide_file, guide_attempts, guide_input,
                   exceptPipe>>

\* process_single_video, step 2: _transcribe_audio_step calls
\* transcriber.transcribe_audio (no file to reuse, or it could not be read) and
\* validates the result; validate_transcription reads self.language and raises
\* when the local setup never set it
TranscribeAudioStep ==
    /\ pipeline = "constructed" /\ item = "audio_ready"
    /\ ~(skip_existing(transcript_file.exists, overwrite_existing)
            /\ found.readable)
    /\ \E call \in (IF api_first(processing_mode, api_provider)
                    THEN ApiCalls ELSE {NoCall}),
          api_save \in (IF api_first(processing_mode, api_provider)
                        THEN SaveOutcomes ELSE {"ok"}),
          local \in (IF model = "None" THEN {"raise"} ELSE {"ok", "raise"}),
          local_save \in (IF model = "None" THEN {"ok"} ELSE SaveOutcomes) :
          LET t == transcribe_audio(processing_mode, config, api_provider, model,
                                    audio_file, transcript_file, call, api_save,
                                    local, local_save)
          IN  /\ provider_call' = call
              /\ steps_run' = Append(steps_run, "transcribe")
              /\ attempts' = t.attempts
              /\ result' = t.result
              /\ transcript_file' = t.file
              /\ item' = stage_next(t.result # NoneResult /\ language # "unset",
                                    "transcribed")
    /\ UNCHANGED <<pipeSettings, cleanup, pipeline, model, api_provider, language,
                   audio_file, guide_file, guide_attempts, guide_input,
                   exceptPipe>>

\* a slip the pipeline could make: the audio removed after every video,
\* preserved or failed
cleanup_regardless(ok, preserve, removed) ==
    IF removed THEN "removed" ELSE "failed"

\* "if not self.preserve_intermediate: self._cleanup_intermediate_files(...)"
\* after the three steps succeeded; os.remove can raise, which is logged
cleanup_intermediate_files(ok, preserve, removed) ==
    IF ok /\ ~preserve THEN (IF removed THEN "removed" ELSE "failed")
    ELSE "none"

\* process_single_video, step 3: _generate_guide_step, and after it the
\* cleanup of the extracted audio (_cleanup_intermediate_files, which can fail
\* to remove the file) unless the intermediate files are to be preserved
GenerateGuideStep ==
    /\ pipeline = "constructed" /\ item = "transcribed"
    /\ LET skipped == skip_existing(guide_file.exists, overwrite_existing)
       IN  \E g \in (IF skipped
                     THEN {[result |-> TRUE, attempts |-> <<>>, file |-> guide_file]}
                     ELSE guide_outcomes[processing_mode][guide_file]),
              removed \in BOOLEAN :
              /\ steps_run' = IF skipped THEN steps_run
                              ELSE Append(steps_run, "generate")
              /\ guide_input' = IF skipped THEN guide_input ELSE result.text
              /\ guide_attempts' = g.attempts
              /\ guide_file' = g.file
              /\ item' = stage_next(g.result, "done")
              /\ cleanup' = cleanup_intermediate_files(g.result,
                                    preserve_intermediate, removed)
              /\ audio_file' = (audio_file /\ cleanup' # "removed")
    /\ UNCHANGED <<pipeSettings, pipeline, model, api_provider, language,
                   attempts, result, transcript_file, provider_call, exceptPipe>>

Next == ConstructPipeline \/ StartItem \/ ExtractAudioStep \/ ReuseTranscription
            \/ TranscribeAudioStep \/ GenerateGuideStep

Spec == PipelineInit /\ [][Next]_vars

(***************************************************************************)
(* Statements about the Transcriber and the pipeline.                      *)
(***************************************************************************)

\* the transcription step called transcriber.transcribe_audio for the video
TranscribeRan == steps_run # <<>> /\ steps_run[Len(steps_run)] = "transcribe"

\* the file was split and the request failed for every chunk
AllChunksFailed ==
    /\ provider_call.kind = "chunked"
    /\ provider_call.chunks # <<>>
    /\ \A i \in DOMAIN provider_call.chunks : provider_call.chunks[i] = "raise"

\* C2: when every chunk of a chunked transcription fails, the provider ends in
\* an error: the Transcriber gets no text from it as a result, and no merged
\* text is written to the transcription file.
C2_AllChunksFailedIsAnError ==
    (TranscribeRan /\ AllChunksFailed) =>
        /\ ~(result.kind = "result" /\ result.method = "api")
        /\ transcript_file.text # AllChunksFailedText

\* the modes whose transcription chain starts with the remote adapter
RemoteChainModes == {"api_transcription", "full_api", "hybrid"}

\* C6: transcribe_audio attempts the adapters in chain order: in
\* api_transcription, full_api and hybrid the remote adapter, when there is
\* one, is attempted first and the local model only after it; in basic,
\* local_ai and api_generation only the local model is attempted.
C6_ChainOrder ==
    TranscribeRan =>
        /\ (processing_mode \in RemoteChainModes /\ api_provider # "None")
              => (attempts # <<>> /\ attempts[1] = "api")
        /\ processing_mode \notin RemoteChainModes
              => \A i \in DOMAIN attempts : attempts[i] = "local"
        /\ \A i, j \in DOMAIN attempts :
              (attempts[i] = "local" /\ attempts[j] = "api") => j < i

\* C7: in hybrid mode without a remote adapter the local model is used, and
\* every result transcribe_audio returns carries a tag naming the adapter that
\* produced it.
C7_ResultNamesItsAdapter ==
    TranscribeRan =>
        /\ (processing_mode = "hybrid" /\ api_provider = "None" /\ model = "loaded")
              => attempts = <<"local">>
        /\ result.kind = "result" => result.method = attempts[Len(attempts)]

\* C8: in every mode the constructor sets up the local model, so that a
\* machine where Whisper is installed and loads has it for the fallback.
C8_LocalModelSetUpInEveryMode ==
    (pipeline = "constructed" /\ environment.whisper_available
                              /\ environment.model_loadable)
        => model = "loaded"

\* the local model cannot be had: the package is missing or the model does not
\* load
LocalModelUnavailable ==
    ~environment.whisper_available \/ ~environment.model_loadable

\* C9: in basic mode with the local model unavailable at startup the
\* construction of the pipeline raises, and no step runs for the video:
\* nothing is extracted, transcribed or written.
C9_BasicWithoutModelRaises ==
    /\ (processing_mode = "basic" /\ LocalModelUnavailable /\ pipeline # "new")
          => pipeline = "raised"
    /\ pipeline = "raised"
          => /\ item = "pending" /\ steps_run = <<>> /\ attempts = <<>>
             /\ result = NoneResult
             /\ transcript_file \in {NoFile, [exists |-> TRUE, text |-> OldText]}

\* the construction raised in basic mode for want of the whisper package
C9_Witness ==
    /\ processing_mode = "basic" /\ ~environment.whisper_available
    /\ pipeline = "raised"

\* neither adapter of the transcription chain can be used
AllAdaptersUnavailable == api_provider = "None" /\ model = "None"

\* the adapters a transcription chain consists of, in order
TranscriptionChain(mode) ==
    IF mode \in RemoteChainModes THEN <<"api", "local">> ELSE <<"local">>

\* the providers the outcome of the transcription stage names
providers_named(res) == IF res.kind = "None" THEN <<>> ELSE <<res.method>>

GenInit ==
    /\ genMode \in Modes
    /\ genConfig \in [provider : GenProviderNames,
                      fallback_to_local_ai : ConfigFlags,
                      fallback_to_template : ConfigFlags]
    /\ genEnv \in [api_key_present : BOOLEAN, ollama_at_startup : BOOLEAN]
    /\ genPhase = "new" /\ generator = NoGenerator /\ genCall = NoGenCall
    /\ gen_attempts = <<>> /\ gen_result = FALSE
    /\ genGuide \in {NoGuide, [exists |-> TRUE, text |-> "old"]}
    /\ PlanIdle /\ MergeIdle /\ PipelineIdle /\ LaterPartsIdle

\* GuideGenerator(config, processing_mode)
ConstructGenerator ==
    /\ genPhase = "new"
    /\ LET g == GuideGenerator_init(genMode, genConfig, genEnv)
       IN  IF g.raised
           THEN genPhase' = "raised" /\ UNCHANGED generator
           ELSE /\ genPhase' = "constructed"
                /\ generator' = [template_ready |-> g.template_ready,
                                 ollama_provider |-> g.ollama_provider,
                                 api_provider |-> g.api_provider]
    /\ UNCHANGED <<genMode, genConfig, genEnv, genCall, gen_attempts, gen_result,
                   genGuide, exceptGen>>

\* guide_generator.generate_guide(transcription_result, guide_path, template)
GenerateGuide ==
    /\ genPhase = "constructed"
    /\ \E call \in GenCalls(genMode, generator) :
          LET g == generate_guide(genMode, generator, genConfig, genGuide, call)
          IN  /\ genCall' = call
              /\ gen_attempts' = g.attempts
              /\ gen_result' = g.result
              /\ genGuide' = g.file
    /\ genPhase' = "generated"
    /\ UNCHANGED <<genMode, genConfig, genEnv, generator, exceptGen>>

GenNext == ConstructGenerator \/ GenerateGuide

SpecGen == GenInit /\ [][GenNext]_vars

\* C11: the template is the last generator and never fails: in every mode,
\* when no earlier generator produced the guide and the call was not ended
\* by a fallback flag, the template generator runs, and, the template
\* rendering and the guide file being writable, the stage succeeds.
C11_TemplateNeverFails ==
    (genPhase = "generated" /\ gen_attempts # <<>>
        /\ gen_attempts[Len(gen_attempts)] = "template"
        /\ genCall.template = "content" /\ genCall.template_save = "ok")
            => gen_result

\* the generation chain of a mode
GenerationChain(mode) ==
    IF mode \in {"basic", "api_transcription"} THEN <<"template">>
    ELSE IF mode = "local_ai" THEN <<"local_ai", "template">>
    ELSE IF mode = "hybrid" THEN <<"api", "local_ai", "template">>
    ELSE <<"api", "template">>

\* a generator of the chain that can be used in this call
GenAvailable(a) ==
    IF a = "api" THEN generator.api_provider # "None"
    ELSE IF a = "local_ai" THEN generator.ollama_provider /\ genCall.ollama_up
    ELSE TRUE

\* the generators of the mode's chain that can be used, in chain order
AvailableChain == SelectSeq(GenerationChain(genMode), GenAvailable)

\* C12: generate_guide attempts the generators of the mode's chain in chain
\* order, starting with the first usable one and skipping none, and attempts
\* no generator outside the chain.
C12_GenerationChainOrder ==
    genPhase = "generated" =>
        /\ gen_attempts # <<>>
        /\ Len(gen_attempts) <= Len(AvailableChain)
        /\ \A i \in DOMAIN gen_attempts : gen_attempts[i] = AvailableChain[i]

\* the remote transcription provider was called and raised
RemoteTranscriptionFailed ==
    /\ TranscribeRan /\ attempts # <<>> /\ attempts[1] = "api"
    /\ provider_transcribe_audio(api_provider, provider_call).raised

\* C13: the transcription chain goes on to the local adapter after a failure
\* of the remote provider only if fallback_to_local is explicitly true; with
\* the flag false or absent the stage fails and the local adapter is not
\* invoked.
C13_FallbackOnlyWhenEnabled ==
    (RemoteTranscriptionFailed /\ config.fallback_to_local # "true")
        => attempts = <<"api">> /\ result = NoneResult /\ item = "failed"

\* the same statement for the generation chain: after a generator raised, the
\* next one is attempted only if its fallback flag is explicitly true
GenerationFallbackOnlyWhenEnabled ==
    genPhase = "generated" =>
        /\ (gen_attempts[1] = "api" /\ genCall.api = "raise"
                /\ genConfig.fallback_to_local_ai # "true")
            => gen_attempts = <<"api">> /\ ~gen_result
        /\ (\E i \in DOMAIN gen_attempts :
                /\ gen_attempts[i] = "local_ai" /\ genCall.ollama = "raise"
                /\ genConfig.fallback_to_template # "true")
            => gen_attempts[Len(gen_attempts)] = "local_ai" /\ ~gen_result

(***************************************************************************)
(* Statements about the steps of one video.                                *)
(***************************************************************************)

\* the components invoked for the video so far
StepsDone == {steps_run[i] : i \in DOMAIN steps_run}

\* the step invokes the component
Ran(step) == steps_run' = Append(steps_run, step)

\* what C14 asks of every step of the pipeline
StagesInOrderStep ==
    /\ steps_run' # steps_run
        => Ran("extract") \/ Ran("transcribe") \/ Ran("generate")
    /\ Ran("extract") => steps_run = <<>>
    /\ Ran("transcribe")
        => /\ audio_file
           /\ "extract" \in StepsDone
                \/ skip_existing(found.audio, overwrite_existing)
           /\ StepsDone \subseteq {"extract"}
    /\ Ran("generate")
        => /\ result # NoneResult
           /\ "transcribe" \in StepsDone \/ result.kind = "loaded"
           /\ "generate" \notin StepsDone
    /\ item = "failed" => item' = "failed" /\ steps_run' = steps_run
    /\ (item # "done" /\ item' = "done")
        => /\ guide_file'.exists
           /\ Ran("generate")
                => /\ guide_attempts' # <<>>
                   /\ guide_file'.text = guide_attempts'[Len(guide_attempts')]
           /\ ~Ran("generate")
                => /\ skip_existing(guide_file.exists, overwrite_existing)
                   /\ guide_file' = guide_file

EndedOnFoundGuide == found.guide.exists /\ ~overwrite_existing

\* the video got past the extraction, the transcription
PastExtraction ==
    item \in {"audio_ready", "transcribed", "done"} /\ ~EndedOnFoundGuide
PastTranscription == item \in {"transcribed", "done"} /\ ~EndedOnFoundGuide

\* with overwriting asked for, no stage the video got past was skipped
OverwriteRunsEveryStage ==
    overwrite_existing =>
        /\ PastExtraction => "extract" \in StepsDone
        /\ PastTranscription => "transcribe" \in StepsDone
        /\ item = "done" => "generate" \in StepsDone

\* the audio and the guide that were found are reused (overwriting not asked
\* for): the extractor, the generator are not invoked, the file stays as it
\* was while the video is worked on
FoundAudioAndGuideReused ==
    ~overwrite_existing =>
        /\ found.audio => "extract" \notin StepsDone /\ (item # "done" => audio_file)
        /\ found.guide.exists => steps_run = <<>> /\ guide_file = found.guide

\* the transcription file that was found is reused: the transcriber is not
\* invoked, the file stays as it was, and its text is what the generator gets
FoundTranscriptReused ==
    /\ "transcribe" \notin StepsDone
    /\ transcript_file = found.transcript
    /\ PastTranscription => result.text = found.transcript.text
    /\ "generate" \in StepsDone => guide_input = found.transcript.text

C18_FailedStageLeavesNoArtifact ==
    (TranscribeRan /\ result = NoneResult)
        => (transcript_file.exists => transcript_file = found.transcript)

(***************************************************************************)
(* The batch, VideoPipeline.process_batch: the videos found in the         *)
(* directory are taken through process_single_video one after the other.   *)
(* A video is a number (its place in the sorted list of paths).  A         *)
(* KeyboardInterrupt can arrive while process_single_video is at work: its *)
(* "except Exception" does not catch it, the loop's "except                *)
(* KeyboardInterrupt" does.                                                *)
(***************************************************************************)
MaxVideos == 3

\* the steps of process_single_video and the file each one writes
Stages == <<"extract", "transcribe", "generate">>
stage_file(stage) ==
    IF stage = "extract" THEN "audio"
    ELSE IF stage = "transcribe" THEN "transcription" ELSE "guide"

\* where process_single_video goes after a step that succeeded
after_stage(stage) ==
    IF stage = "extract" THEN "transcribe"
    ELSE IF stage = "transcribe" THEN "generate" ELSE "none"

\* results[video_file] = success
record_result(res, v, success) ==
    [x \in DOMAIN res \cup {v} |-> IF x = v THEN success ELSE res[x]]

\* a slip the loop could make: the batch given up at the first video that fails
next_video_until_failure(pos, success) ==
    IF success THEN pos + 1 ELSE Len(video_files) + 1

\* "for video_file in video_files": the loop goes on whatever the outcome
next_video(pos, success) == pos + 1

BatchInit ==
    /\ video_files \in {[i \in 1..n |-> i] : n \in 0..MaxVideos}
    /\ batch_pos = 1 /\ in_flight = "none" /\ results = NoResults
    /\ processed = <<>> /\ cancelled = FALSE /\ artifacts = {}
    /\ batchPhase = "running"
    /\ PlanIdle /\ MergeIdle /\ PipelineIdle /\ GenIdle /\ ChunkIdle /\ RetryIdle
    /\ OllamaIdle
    /\ ExtractIdle
    /\ TrackerIdle

\* the loop calls process_single_video for the next video
BeginVideo ==
    /\ batchPhase = "running" /\ in_flight = "none"
    /\ batch_pos <= Len(video_files)
    /\ processed' = Append(processed, video_files[batch_pos])
    /\ in_flight' = "validate"
    /\ UNCHANGED <<video_files, batch_pos, results, cancelled, artifacts,
                   batchPhase, exceptBatch>>

\* process_single_video, validate_video_file: the video is valid, or it is
\* not (False is returned), or the check itself raises, which only the loop's
\* "except Exception" catches
ValidateVideo ==
    /\ batchPhase = "running" /\ in_flight = "validate"
    /\ \E outcome \in {"valid", "invalid", "error"} :
          IF outcome = "valid"
          THEN /\ in_flight' = "extract"
               /\ UNCHANGED <<batch_pos, results>>
          ELSE /\ in_flight' = "none"
               /\ results' = record_result(results, video_files[batch_pos], FALSE)
               /\ batch_pos' = next_video(batch_pos, FALSE)
    /\ UNCHANGED <<video_files, processed, cancelled, artifacts, batchPhase,
                   exceptBatch>>

\* process_single_video, one of the three steps: it writes its file and the
\* next step follows, or it fails (False is returned, also for an exception);
\* after the last step the extracted audio is removed and True is returned
RunStage ==
    /\ batchPhase = "running" /\ in_flight \in {"extract", "transcribe", "generate"}
    /\ LET video == video_files[batch_pos]
           done  == after_stage(in_flight) = "none"
       IN  \E ok \in BOOLEAN :
              IF ok
              THEN /\ in_flight' = after_stage(in_flight)
                   /\ artifacts' =
                        IF done
                        THEN (artifacts \cup {[video |-> video, kind |-> "guide"]})
                                \ {[video |-> video, kind |-> "audio"]}
                        ELSE artifacts \cup {[video |-> video,
                                              kind |-> stage_file(in_flight)]}
                   /\ results' = IF done THEN record_result(results, video, TRUE)
                                 ELSE results
                   /\ batch_pos' = IF done THEN next_video(batch_pos, TRUE)
                                   ELSE batch_pos
              ELSE /\ in_flight' = "none"
                   /\ results' = record_result(results, video, FALSE)
                   /\ batch_pos' = next_video(batch_pos, FALSE)
                   /\ UNCHANGED artifacts
    /\ UNCHANGED <<video_files, processed, cancelled, batchPhase, exceptBatch>>

\* a KeyboardInterrupt while process_single_video is at work: the exception
\* leaves process_single_video where it is, and the loop breaks; the step that
\* was interrupted may have begun to write its file
Interrupt ==
    /\ batchPhase = "running" /\ in_flight # "none"
    /\ cancelled' = TRUE
    /\ batchPhase' = "returned"
    /\ \E partial \in BOOLEAN :
          artifacts' = IF partial /\ in_flight # "validate"
                       THEN artifacts \cup {[video |-> video_files[batch_pos],
                                             kind |-> stage_file(in_flight)]}
                       ELSE artifacts
    /\ UNCHANGED <<video_files, batch_pos, in_flight, results, processed,
                   exceptBatch>>

\* the loop is through: the summary is printed and results returned
ReturnResults ==
    /\ batchPhase = "running" /\ in_flight = "none"
    /\ batch_pos > Len(video_files)
    /\ batchPhase' = "returned"
    /\ UNCHANGED <<video_files, batch_pos, in_flight, results, processed,
                   cancelled, artifacts, exceptBatch>>

BatchNext == BeginVideo \/ ValidateVideo \/ RunStage \/ Interrupt \/ ReturnResults

SpecBatch == BatchInit /\ [][BatchNext]_vars

\* the videos found
VideosFound == {video_files[i] : i \in DOMAIN video_files}

\* C16: the videos are processed one at a time, in the order found, and,
\* without a cancellation, the batch returns only when process_single_video
\* was called for every video found, whatever failed on the way; the map
\* returned has exactly one entry for every video found.
C16_BatchSurvivesFailures ==
    /\ Len(processed) <= Len(video_files)
    /\ \A i \in DOMAIN processed : processed[i] = video_files[i]
    /\ (batchPhase = "returned" /\ ~cancelled)
        => processed = video_files /\ DOMAIN results = VideosFound

\* a video failed, the next one succeeded, and the batch returned
C16_Witness ==
    /\ batchPhase = "returned" /\ ~cancelled /\ Len(video_files) >= 2
    /\ ~results[1] /\ results[2]

\* C17: a cancellation ends the batch only after the video in flight is
\* complete: that video has its entry in the map, and no file of a video
\* without an entry (an unfinished one) is left in the output directories.
C17_CancelAfterInFlightItem ==
    (batchPhase = "returned" /\ cancelled)
        => /\ processed[Len(processed)] \in DOMAIN results
           /\ \A a \in artifacts : a.video \in DOMAIN results

(***************************************************************************)
(* Chunked transcription, provider._transcribe_with_chunking of both       *)
(* providers: the loop over the chunk files, one request per chunk, and    *)
(* the merge of what the requests returned.                                *)
(***************************************************************************)
MaxChunkPaths == 3

\* the entry the loop appends to "transcriptions" for one chunk
chunk_entry(outcome) ==
    IF outcome = "raise" THEN FailedChunk ELSE OkChunk(response_text(outcome))

\* a slip the loop could make: the remaining chunks given up after a failure
next_chunk_abort(i, outcome) ==
    IF outcome = "raise" THEN Len(chunk_paths) + 1 ELSE i + 1

\* "for i, chunk_path in enumerate(chunk_paths)": the except clause is inside
\* the loop, so the loop goes on after a failure
next_chunk(i, outcome) == i + 1

\* what the ffmpeg command for one window leads to: the chunk file is there,
\* the command failed (CalledProcessError), or it left no file
SliceOutcomes == {"created", "ffmpeg_failed", "not_created"}

\* the chunk files of the windows 1..n whose file was created, in order:
\* "chunk_paths.append(chunk_path)" is reached for those only
created_chunks(n, outcomes) ==
    SelectSeq([i \in 1..n |-> i], LAMBDA i : outcomes[i] = "created")

ChunkInit ==
    /\ chunkProvider \in Providers
    /\ planned_windows \in 0..MaxChunkPaths
    /\ chunk_paths = <<>>
    /\ chunk_index = 1 /\ requested = <<>> /\ chunk_entries = <<>>
    /\ chunkPhase = "splitting" /\ chunked_result = NoChunkedResult
    /\ PlanIdle /\ MergeIdle /\ PipelineIdle /\ GenIdle /\ BatchIdle /\ RetryIdle
    /\ OllamaIdle
    /\ ExtractIdle
    /\ TrackerIdle

\* the loop of _split_audio_file over the planned windows
CreateChunkFiles ==
    /\ chunkPhase = "splitting"
    /\ \E outcomes \in [1..planned_windows -> SliceOutcomes] :
          chunk_paths' = created_chunks(planned_windows, outcomes)
    /\ chunkPhase' = "looping"
    /\ UNCHANGED <<chunkProvider, planned_windows, chunk_index, requested,
                   chunk_entries, chunked_result, exceptChunk>>

\* one turn of the loop: _transcribe_single_file(chunk_path) and the entry
TranscribeChunk ==
    /\ chunkPhase = "looping" /\ chunk_index <= Len(chunk_paths)
    /\ \E outcome \in RequestOutcomes :
          /\ requested' = Append(requested, chunk_paths[chunk_index])
          /\ chunk_entries' = Append(chunk_entries, chunk_entry(outcome))
          /\ chunk_index' = next_chunk(chunk_index, outcome)
    /\ UNCHANGED <<chunkProvider, planned_windows, chunk_paths, chunkPhase,
                   chunked_result, exceptChunk>>

\* after the loop: the entries are merged and the result returned (the
\* HuggingFace provider returns a failed result when there are no chunks)
CombineChunks ==
    /\ chunkPhase = "looping" /\ chunk_index > Len(chunk_paths)
    /\ chunked_result' =
          IF chunkProvider = "huggingface" /\ chunk_paths = <<>>
          THEN [text |-> NoChunksText, failed |-> TRUE]
          ELSE [text |-> merge_overlapping_transcriptions(chunkProvider,
                                                          chunk_entries),
                failed |-> FALSE]
    /\ chunkPhase' = "returned"
    /\ UNCHANGED <<chunkProvider, planned_windows, chunk_paths, chunk_index,
                   requested, chunk_entries, exceptChunk>>

ChunkNext == CreateChunkFiles \/ TranscribeChunk \/ CombineChunks

SpecChunk == ChunkInit /\ [][ChunkNext]_vars

\* every chunk so far was requested once, in order, and has its entry; when
\* the provider returns, that is every chunk
EveryChunkAttemptedOnce ==
    /\ Len(requested) <= Len(chunk_paths)
    /\ \A i \in DOMAIN requested : requested[i] = chunk_paths[i]
    /\ Len(chunk_entries) = Len(requested)
    /\ chunkPhase = "returned" => requested = chunk_paths

\* what the provider returned is a transcript, not a failure
TranscriptReturned ==
    /\ ~chunked_result.failed
    /\ chunked_result.text # AllChunksFailedText
    /\ chunked_result.text # <<>>

MaxRetries == 3

\* APIProvider.__init__: config.get('max_retries', 3)
DefaultMaxRetries == 3
max_retries(cfg) == IF cfg.set THEN cfg.value ELSE DefaultMaxRetries

\* what a request can meet: an answer with a guide text, with an empty (or
\* blank) text, with a null text, or without choices; an HTTP error status
\* (raise_for_status); no connection or a timeout; a body that is not JSON
Responses ==
    {"content", "empty_content", "null_content", "no_choices", "http_error",
     "connection_error", "bad_json"}

\* the failures that raise a requests.exceptions.RequestException; whether
\* the error of response.json() is one depends on the version of requests
retryable(resp, json_retried) ==
    \/ resp \in {"http_error", "connection_error"}
    \/ resp = "bad_json" /\ json_retried

\* a slip the loop could make: the same delay before every retry
backoff_constant(attempt) == 1

\* time.sleep(2 ** attempt)
backoff(attempt) == 2 ^ attempt

RetryInit ==
    /\ retryConfig \in {[set |-> FALSE, value |-> 0]}
                        \cup {[set |-> TRUE, value |-> n] : n \in 0..MaxRetries}
    /\ json_error_retried \in BOOLEAN
    /\ retry_attempt = 0 /\ responses = <<>> /\ sleeps = <<>>
    /\ retryPhase = "calling" /\ generated = "None"
    /\ PlanIdle /\ MergeIdle /\ PipelineIdle /\ GenIdle /\ BatchIdle /\ ChunkIdle
    /\ OllamaIdle
    /\ ExtractIdle
    /\ TrackerIdle

\* one turn of the loop: the request, and what the answer leads to
PostRequest ==
    /\ retryPhase = "calling" /\ retry_attempt < max_retries(retryConfig)
    /\ \E resp \in Responses :
          /\ responses' = Append(responses, resp)
          /\ IF retryable(resp, json_error_retried)
             THEN IF retry_attempt < max_retries(retryConfig) - 1
                  THEN /\ sleeps' = Append(sleeps, backoff(retry_attempt))
                       /\ retry_attempt' = retry_attempt + 1
                       /\ UNCHANGED <<retryPhase, generated>>
                  ELSE /\ retryPhase' = "raised"
                       /\ UNCHANGED <<sleeps, retry_attempt, generated>>
             ELSE /\ retryPhase' = IF resp \in {"content", "empty_content"}
                                   THEN "returned" ELSE "raised"
                  /\ generated' = IF resp = "content" THEN "content"
                                  ELSE IF resp = "empty_content" THEN ""
                                  ELSE generated
                  /\ UNCHANGED <<sleeps, retry_attempt>>
    /\ UNCHANGED <<retryConfig, json_error_retried, exceptRetry>>

\* the loop ends without a request (max_retries is 0): the method returns None
LoopEnds ==
    /\ retryPhase = "calling" /\ retry_attempt >= max_retries(retryConfig)
    /\ retryPhase' = "returned"
    /\ UNCHANGED <<retryConfig, json_error_retried, retry_attempt, responses,
                   sleeps, generated, exceptRetry>>

RetryNext == PostRequest \/ LoopEnds

SpecRetry == RetryInit /\ [][RetryNext]_vars

\* the call is over
CallEnded == retryPhase \in {"returned", "raised"}

\* at most max_retries requests; every request but the last met a failure of
\* the exchange itself; before the i-th further request the call slept
\* 2^(i-1) seconds, each delay twice the one before
BoundedRetriesWithBackoff ==
    /\ Len(responses) <= max_retries(retryConfig)
    /\ \A i \in 1..(Len(responses) - 1) :
          responses[i] \in {"http_error", "connection_error", "bad_json"}
    /\ Len(sleeps) = IF CallEnded /\ responses # <<>> THEN Len(responses) - 1
                     ELSE Len(responses)
    /\ \A i \in DOMAIN sleeps :
          sleeps[i] = IF i = 1 THEN 1 ELSE 2 * sleeps[i - 1]

\* the response that ended the call
LastResponse == responses[Len(responses)]

PlanDuration ==
    max_chunk_duration(planProvider, planCfg, total_duration, file_size_mb,
                       float_loss)

\* _split_audio_file is over, with a plan or with an exception
SplitEnded == planPhase \in {"planned", "error"}

\* C21: a step (chunk duration minus overlap) that is zero or negative makes
\* the planning fail with an error: no plan, empty or not, is returned.
C21_NonPositiveStepRejected ==
    (SplitEnded /\ PlanStep <= 0) => planPhase = "error"

\* C22: for every total duration > 0 (and a positive step) the plan is not
\* empty, also for a duration below the minimum chunk duration.
C22_PlanNeverEmpty ==
    (planPhase = "planned" /\ PlanStep > 0) => windows # <<>>

\* the starts i * step below the total duration
StartsBelowTotal == {i \in 0..total_duration : i * PlanStep < total_duration}

\* the plan for 500 s of audio, chunks of 120 s, 10 s of overlap
Plan500 ==
    plan_windows("openrouter",
                 [max_file_size_mb |-> 5, target_chunk_size_mb |-> 4,
                  chunk_duration_seconds |-> 120, chunk_overlap_seconds |-> 10],
                 500, 6, 0).windows

\* C23: one window for every start i * step below the total duration, in
\* order, each lasting min(chunk duration, total - start); for 500 s, 120 s
\* and 10 s the windows start at 0, 110, 220, 330, 440 and the last lasts 60 s.
C23_WindowsAtEveryStep ==
    /\ (planPhase = "planned" /\ PlanStep > 0)
        => /\ Len(windows) = Cardinality(StartsBelowTotal)
           /\ \A k \in DOMAIN windows :
                /\ windows[k].start = (k - 1) * PlanStep
                /\ windows[k].duration =
                        Min(PlanDuration, total_duration - windows[k].start)
    /\ [k \in 1..5 |-> Plan500[k].start] = <<0, 110, 220, 330, 440>>
    /\ Len(Plan500) = 5 /\ Plan500[5].duration = 60

\* the same for the HuggingFace planner alone
HuggingFaceWindowsAtEveryStep ==
    planProvider = "huggingface" => C23_WindowsAtEveryStep

\* C27: the chunk duration the plan is made with is at least the minimum
\* chunk duration, and so is the duration of every window, which is positive.
C27_WindowsNotBelowMinimum ==
    planPhase = "planned"
        => /\ PlanDuration >= MinChunkDuration
           /\ \A k \in DOMAIN windows :
                windows[k].duration > 0
                    /\ windows[k].duration >= MinChunkDuration

\* the weaker statement that holds: every window lasts more than 0 seconds,
\* and OpenRouter's at least 15
WindowsPositive ==
    planPhase = "planned"
        => \A k \in DOMAIN windows :
              /\ windows[k].duration > 0
              /\ planProvider = "openrouter"
                    => windows[k].duration >= MinTailDuration

(***************************************************************************)
(* Empty provider chains (checked under Spec).                             *)
(***************************************************************************)

\* the adapters of the mode's transcription chain that the constructed
\* Transcriber can use
UsableChain ==
    SelectSeq(TranscriptionChain(processing_mode),
              LAMBDA a : IF a = "api" THEN api_provider # "None"
                                      ELSE model # "None")

\* C24: in every processing mode a configuration that leaves the
\* transcription chain without a usable provider is rejected when the pipeline
\* is constructed: a constructed pipeline has a usable provider.
C24_EmptyChainRejectedAtConstruction ==
    pipeline = "constructed" => UsableChain # <<>>

(***************************************************************************)
(* utils.ProgressTracker: a counter of steps with update() and finish().   *)
(***************************************************************************)
MaxSteps == 4
MaxTrackerCalls == 5

\* update(): the step is counted, then the percentage is computed, which
\* divides by total_steps
update(current, total) ==
    [current_step |-> current + 1, raised |-> total = 0]

\* finish(): below the total the step is set to the total and update() is
\* called, which counts one more step
finish(current, total) ==
    IF current < total
    THEN update(total, total)
    ELSE [current_step |-> current, raised |-> FALSE]

\* ProgressTracker(total_steps)
TrackerInit ==
    /\ total_steps \in 0..MaxSteps
    /\ current_step = 0 /\ tracker_call = "none" /\ step_before = 0
    /\ call_raised = FALSE /\ tracker_calls = 0
    /\ PlanIdle /\ MergeIdle /\ PipelineIdle /\ GenIdle
    /\ OllamaIdle
    /\ ExtractIdle
    /\ BatchIdle /\ ChunkIdle /\ RetryIdle

TrackerCall(name, after) ==
    /\ tracker_call # "idle" /\ tracker_calls < MaxTrackerCalls
    /\ tracker_call' = name /\ step_before' = current_step
    /\ current_step' = after.current_step /\ call_raised' = after.raised
    /\ tracker_calls' = tracker_calls + 1
    /\ UNCHANGED <<total_steps, exceptTrack>>

Update == TrackerCall("update", update(current_step, total_steps))

Finish == TrackerCall("finish", finish(current_step, total_steps))

TrackerNext == Update \/ Finish

SpecTracker == TrackerInit /\ [][TrackerNext]_vars

\* C25: update() adds exactly 1 to current_step; finish() called with
\* current_step below total_steps leaves it equal to total_steps; current_step
\* never exceeds total_steps.
C25_TrackerStepsBounded ==
    /\ tracker_call = "update" => current_step = step_before + 1
    /\ (tracker_call = "finish" /\ step_before < total_steps)
          => current_step = total_steps
    /\ current_step <= total_steps

\* the part of C25 that the test exercises: after fewer than total_steps
\* calls of update(), finish() leaves current_step equal to total_steps
C25_FinishReachesTotal ==
    (tracker_call = "finish" /\ step_before < total_steps)
        => current_step = total_steps

\* what holds: update() adds exactly 1, and finish() below the total leaves
\* the step one above the total
FinishOvershoots ==
    /\ tracker_call = "update" => current_step = step_before + 1
    /\ (tracker_call = "finish" /\ step_before < total_steps)
          => current_step = total_steps + 1

(***************************************************************************)
(* AudioExtractor.extract_audio: the output directory is made, the ffmpeg  *)
(* command is run once, and its exit code and the audio file decide.       *)
(***************************************************************************)
ReturnCodes == {0, 1, 2, 255}

\* what extract_audio can meet: os.makedirs raises or not; subprocess.run
\* returns with an exit code, times out or raises (no ffmpeg); the audio file
\* afterwards is missing, empty or has content
ExtractEnvironments ==
    [makedirs : {"ok", "raises"}, run : {"returned", "timeout", "raises"},
     returncode : ReturnCodes, audio_after : {"missing", "empty", "content"}]

\* a slip extract_audio could make: exit code 0 taken for success without a
\* look at the audio file
extract_audio_trusting_exit_code(env) ==
    IF env.makedirs = "raises"
    THEN [run_calls |-> 0, returned |-> "False"]
    ELSE [run_calls |-> 1,
          returned |-> IF env.run = "returned" /\ env.returncode = 0
                       THEN "True" ELSE "False"]

\* extract_audio: everything is inside one try, every exception gives False
extract_audio(env) ==
    IF env.makedirs = "raises"
    THEN [run_calls |-> 0, returned |-> "False"]
    ELSE [run_calls |-> 1,
          returned |-> IF /\ env.run = "returned" /\ env.returncode = 0
                          /\ env.audio_after = "content"
                       THEN "True" ELSE "False"]

ExtractInit ==
    /\ extract_env \in ExtractEnvironments
    /\ run_calls = 0 /\ extract_returned = "None" /\ extractPhase = "called"
    /\ PlanIdle /\ MergeIdle /\ PipelineIdle /\ GenIdle
    /\ OllamaIdle
    /\ BatchIdle /\ ChunkIdle /\ RetryIdle /\ TrackerIdle

ExtractAudio ==
    /\ extractPhase = "called"
    /\ LET r == extract_audio(extract_env)
       IN  run_calls' = r.run_calls /\ extract_returned' = r.returned
    /\ extractPhase' = "returned"
    /\ UNCHANGED <<extract_env, exceptExtract>>

ExtractNext == ExtractAudio

SpecExtract == ExtractInit /\ [][ExtractNext]_vars

\* the command ran to its end with this exit code
ExitedWith(code) ==
    /\ extract_env.makedirs = "ok" /\ extract_env.run = "returned"
    /\ extract_env.returncode = code

C28_EveryWindowHasAnEntry ==
    chunkPhase = "returned" => Len(chunk_entries) = planned_windows

\* what holds: there is one entry for each chunk file that was created
EveryChunkFileHasAnEntry ==
    chunkPhase = "returned" => Len(chunk_entries) = Len(chunk_paths)

(***************************************************************************)
(* Further statements about the merger (checked under SpecMerge).          *)
(***************************************************************************)

\* the words a, from the i-th on, occur in this order among the words of b
\* from the j-th on
RECURSIVE OccurInOrder(_, _, _, _)
OccurInOrder(a, i, b, j) ==
    IF i > Len(a) THEN TRUE
    ELSE IF j > Len(b) THEN FALSE
    ELSE IF a[i] = b[j] THEN OccurInOrder(a, i + 1, b, j + 1)
    ELSE OccurInOrder(a, i, b, j + 1)

\* the chunk results without the failed ones
WithoutFailed == SelectSeq(transcriptions, LAMBDA t : ~t.failed)

\* the merged text begins with the whole text t
BeginsWith(t) ==
    Len(combined_text) >= Len(t) /\ sliceFirst(combined_text, Len(t)) = t

\* C29: with at least one successful chunk the merged transcript consists of
\* words of the successful chunks only, in the order of the chunks, and begins
\* with the complete text of the first successful chunk; failed chunks
\* contribute nothing, wherever they stand.
C29_OnlyWordsOfSuccessfulChunks ==
    (mergePhase = "merged" /\ Len(SuccessfulTexts) >= 1)
        => /\ OccurInOrder(split(combined_text), 1,
                           AllWords(Len(SuccessfulTexts)), 1)
           /\ BeginsWith(SuccessfulTexts[1])
           /\ combined_text =
                 merge_overlapping_transcriptions(mergeProvider, WithoutFailed)

\* the part of C29 about failed chunks: the merged text is that of the chunk
\* results without the failed ones
FailedChunksContributeNothing ==
    (mergePhase = "merged" /\ WithoutFailed # <<>>)
        => combined_text =
              merge_overlapping_transcriptions(mergeProvider, WithoutFailed)

\* C29 for the HuggingFace merger and successful chunks of clean text
HuggingFaceOnlyWordsOfChunks ==
    (mergeProvider = "huggingface" /\ AllClean) => C29_OnlyWordsOfSuccessfulChunks

\* C30: when every successful chunk text is words separated by single spaces,
\* so is the merged transcript: no doubled, leading or trailing space, also
\* when a chunk lies wholly inside the overlap and more chunks follow.
C30_MergedTextClean ==
    (mergePhase = "merged" /\ AllClean /\ Len(SuccessfulTexts) >= 1)
        => Clean(combined_text)

\* C30 holds for the OpenRouter merger, which appends nothing when nothing
\* remains after the overlap
OpenRouterMergedTextClean ==
    mergeProvider = "openrouter" => C30_MergedTextClean

(***************************************************************************)
(* Overlap detection (checked under SpecMerge).                            *)
(***************************************************************************)

\* the number of shared words the provider's loop detects between two texts
overlap_detected(provider, merged_text, current_text) ==
    IF provider = "openrouter" THEN OR_overlap_len(merged_text, current_text)
    ELSE HF_best_overlap(merged_text, current_text)

\* the chunks the merger merges
ValidChunks == valid_transcriptions(transcriptions)

\* C31: the detection compares the last and the first words of the two texts,
\* from min(50, word count) words down to 1: the overlap detected between the
\* first two chunks is their longest word overlap, whatever the length of the
\* words and of the texts.
C31_WordOverlapDetected ==
    (mergePhase = "merged" /\ Len(ValidChunks) >= 2)
        => overlap_detected(mergeProvider, ValidChunks[1].text, ValidChunks[2].text)
              = WordOverlap(split(ValidChunks[1].text), split(ValidChunks[2].text))

\* C31 holds for the HuggingFace merger
HuggingFaceWordOverlapDetected ==
    mergeProvider = "huggingface" => C31_WordOverlapDetected

(***************************************************************************)
(* Failures of the remote transcription (checked under Spec).              *)
(***************************************************************************)

\* the remote provider was given the whole file and its request failed
WholeFileRequestFailed ==
    /\ TranscribeRan /\ attempts # <<>> /\ attempts[1] = "api"
    /\ provider_call.kind = "single" /\ provider_call.http = "raise"

\* C32: a transport or HTTP failure of the remote provider on a whole file
\* reaches the Transcriber as a failure, with either provider: the outcome of
\* the stage is not a result of the remote attempt, and no transcript file is
\* written from it.
C32_TransportFailureSurfaces ==
    WholeFileRequestFailed
        => /\ result.method # "api"
           /\ ~(transcript_file.exists
                   /\ transcript_file.text = TranscriptionFailedText)

\* C32 holds for the OpenRouter provider, which re-raises
OpenRouterTransportFailureSurfaces ==
    api_provider = "openrouter" => C32_TransportFailureSurfaces

(***************************************************************************)
(* OllamaProvider: is_available, check_model, pull_model and               *)
(* generate_guide, called several times on one provider.                   *)
(***************************************************************************)
MaxOllamaCalls == 3

\* what a GET of /api/tags can meet: status 200, another status, an exception
TagsOutcomes == {"200", "other", "raise"}

\* what the POST of /api/pull can meet: status 200 with the model installed
\* afterwards, status 200 without it, another status, an exception
PullOutcomes == {"installed", "200_without_model", "other", "raise"}

\* what the POST of /api/generate can meet
GenerateOutcomes == {"response", "no_response", "raise"}

\* is_available: every exception is caught ("except:") and gives False
is_available(health) == [result |-> health = "200", raised |-> FALSE]

\* check_model: the model is in the list of a 200 answer
check_model(tags, installed) == tags = "200" /\ installed

\* pull_model: True on status 200
pull_model(pull) == pull \in {"installed", "200_without_model"}

\* OllamaProvider.generate_guide: what one call does
ollama_generate_guide(installed, health, tags, pull, generate) ==
    LET available == is_available(health).result
        present   == available /\ check_model(tags, installed)
        pulls     == available /\ ~present
        pulled    == pulls /\ pull_model(pull)
        sends     == available /\ (present \/ pulled)
    IN  [available |-> available, present |-> present, pulls |-> pulls,
         pulled |-> pulled, sends |-> sends,
         raised |-> ~sends \/ generate # "response",
         installed |-> installed \/ (pulls /\ pull = "installed")]

OllamaInit ==
    /\ model_installed \in BOOLEAN
    /\ ollama_log = <<>> /\ probe = NoProbe /\ ollamaPhase = "ready"
    /\ PlanIdle /\ MergeIdle /\ PipelineIdle /\ GenIdle
    /\ BatchIdle /\ ChunkIdle /\ RetryIdle /\ TrackerIdle /\ ExtractIdle

\* a call of is_available (as GuideGenerator makes before each generation)
IsAvailable ==
    /\ ollamaPhase = "ready"
    /\ \E health \in TagsOutcomes :
          probe' = [health |-> health, result |-> is_available(health).result,
                    raised |-> is_available(health).raised]
    /\ UNCHANGED <<model_installed, ollama_log, ollamaPhase, exceptOllama>>

\* a call of generate_guide
OllamaGenerateGuide ==
    /\ ollamaPhase = "ready" /\ Len(ollama_log) < MaxOllamaCalls
    /\ \E health \in TagsOutcomes, tags \in TagsOutcomes, pull \in PullOutcomes,
          generate \in GenerateOutcomes :
          LET r == ollama_generate_guide(model_installed, health, tags, pull,
                                         generate)
          IN  /\ ollama_log' = Append(ollama_log,
                     [available |-> r.available, present |-> r.present,
                      pulls |-> r.pulls, pulled |-> r.pulled,
                      sends |-> r.sends, raised |-> r.raised])
              /\ model_installed' = r.installed
    /\ UNCHANGED <<probe, ollamaPhase, exceptOllama>>

OllamaNext == IsAvailable \/ OllamaGenerateGuide

SpecOllama == OllamaInit /\ [][OllamaNext]_vars

\* the calls of generate_guide that triggered a pull
PullingCalls == {i \in DOMAIN ollama_log : ollama_log[i].pulls}

\* a generation request is sent only after the health check passed and with
\* the model present or pulled; the probe never raises and reports
\* unavailable on every error
RequestOnlyWhenReady ==
    /\ \A i \in DOMAIN ollama_log :
          ollama_log[i].sends
              => /\ ollama_log[i].available
                 /\ ollama_log[i].present \/ ollama_log[i].pulled
    /\ ~probe.raised
    /\ probe.health \in {"other", "raise"} => ~probe.result

\* C33: a generation request is sent only after the health check passed and
\* with the model present or pulled; a pull is triggered once, before the
\* first use, and not again on later calls; the probe never raises and
\* reports unavailable on every error.
C33_PullOnceThenGenerate ==
    /\ RequestOnlyWhenReady
    /\ Cardinality(PullingCalls) <= 1

\* what holds about pulls: a call pulls exactly when it finds the server up
\* and the model not listed, every time
PullWheneverModelNotListed ==
    \A i \in DOMAIN ollama_log :
        ollama_log[i].pulls <=> (ollama_log[i].available /\ ~ollama_log[i].present)

(***************************************************************************)
(* Cleanup of the intermediate audio (checked under Spec).                 *)
(***************************************************************************)

\* the extraction ran for the video
Extracted == \E i \in DOMAIN steps_run : steps_run[i] = "extract"

\* the video failed in the extraction step
FailedExtracting ==
    item = "failed" /\ steps_run # <<>> /\ steps_run[Len(steps_run)] = "extract"

\* the transcript and the guide that were found are still there
TranscriptAndGuideKept ==
    /\ found.transcript.exists => transcript_file.exists
    /\ found.guide.exists => guide_file.exists

\* the audio that was found or extracted is still there
AudioKept == audio_file = (found.audio \/ Extracted)

\* C34 as stated: after a video processed successfully without
\* preserve_intermediate the audio is removed; with preserve_intermediate it
\* is kept; the transcript and the guide are never removed, and nothing is
\* removed for a video that failed.
C34_AudioRemovedAfterSuccess ==
    /\ (item = "done" /\ ~preserve_intermediate) => ~audio_file
    /\ (preserve_intermediate /\ ~FailedExtracting) => AudioKept
    /\ TranscriptAndGuideKept
    /\ (item = "failed" /\ ~FailedExtracting) => AudioKept

\* C34, amended: the removal of the audio is attempted exactly for a video
\* whose three steps succeeded without preserve_intermediate, and the audio is
\* gone unless the removal failed; in every other case (preserved, failed,
\* ended on an existing guide) the audio is kept; the transcript and the guide
\* are never removed.
C34_CleanupAttemptedAfterSuccess ==
    /\ cleanup # "none"
          <=> (item = "done" /\ ~preserve_intermediate /\ ~EndedOnFoundGuide)
    /\ cleanup = "removed" => ~audio_file
    /\ cleanup = "failed" => audio_file
    /\ (cleanup = "none" /\ ~FailedExtracting) => AudioKept
    /\ TranscriptAndGuideKept

\* a video was processed without preserve_intermediate and the audio could
\* not be removed: it is done and the audio is still there
C34_Witness ==
    /\ item = "done" /\ ~preserve_intermediate /\ ~EndedOnFoundGuide
    /\ cleanup = "failed" /\ audio_file

(***************************************************************************)
(* The guide of a processed video (checked under Spec).                    *)
(***************************************************************************)

\* the generation ran for the video
Generated == \E i \in DOMAIN steps_run : steps_run[i] = "generate"

\* C35: whenever process_single_video returns True the guide exists: it is
\* the guide that was found and reused, or the guide written by the last
\* generator attempted in this run; True is never returned after a generation
\* whose guide was not written.
C35_DoneImpliesGuide ==
    item = "done"
        => /\ guide_file.exists
           /\ IF Generated
              THEN /\ guide_attempts # <<>>
                   /\ guide_file.text = guide_attempts[Len(guide_attempts)]
              ELSE guide_file = found.guide

\* the video is done with a guide written by the last of several generators
\* attempted, the earlier ones not having produced one
C35_Witness ==
    /\ item = "done" /\ Generated /\ Len(guide_attempts) >= 2
    /\ guide_file = [exists |-> TRUE, text |-> "template"]

(***************************************************************************)
(* The local model after a remote attempt (checked under Spec).            *)
(***************************************************************************)

\* transcribe_audio attempted the remote provider and then the local model
LocalAfterRemote == TranscribeRan /\ attempts = <<"api", "local">>

\* C36: within one call of transcribe_audio the local model is invoked after
\* a remote attempt only if that attempt raised and fallback_to_local is not
\* off; a remote attempt that returned a result never leads to a local
\* transcription.
C36_LocalOnlyAfterRemoteError ==
    LocalAfterRemote
        => /\ provider_transcribe_audio(api_provider, provider_call).raised
           /\ config.fallback_to_local # "false"

\* the part of C36 that holds: after a remote attempt that raised, the local
\* model is invoked only if fallback_to_local is not off
LocalAfterRaiseNeedsFallback ==
    (LocalAfterRemote
        /\ provider_transcribe_audio(api_provider, provider_call).raised)
        => config.fallback_to_local # "false"

(***************************************************************************)
(* local_ai without the template fallback (checked under SpecGen).         *)
(***************************************************************************)

\* the template generator was attempted in the call
TemplateAttempted ==
    \E i \in DOMAIN gen_attempts : gen_attempts[i] = "template"

\* local_ai mode was configured with fallback_to_template false, and a guide
\* generation took place
LocalAiWithoutTemplateFallback ==
    /\ genPhase = "generated" /\ genMode = "local_ai"
    /\ genConfig.fallback_to_template = "false"

\* C37: in local_ai mode with fallback_to_template false, when the local AI
\* provider raised during the generation or was found unavailable at
\* generation time, no template guide is produced and generate_guide returns
\* False.
C37_NoTemplateWithoutFallback ==
    (LocalAiWithoutTemplateFallback
        /\ (~genCall.ollama_up \/ genCall.ollama = "raise"))
        => ~TemplateAttempted /\ ~gen_result

\* the half of C37 that holds: the same when the provider was available and
\* raised during the generation
NoTemplateAfterLocalAiRaised ==
    (LocalAiWithoutTemplateFallback
        /\ genCall.ollama_up /\ genCall.ollama = "raise")
        => ~TemplateAttempted /\ ~gen_result

(***************************************************************************)
(* The fallback decision at startup and at run time (checked under Spec).  *)
(***************************************************************************)

\* a request of the remote provider that raises
RaisingCall == [kind |-> "single", http |-> "raise", chunks |-> <<>>]

\* _setup_api_transcription lets the Transcriber go on without the remote
\* provider when its constructor raises
StartupFallsThrough ==
    ~setup_api_transcription(processing_mode, config,
            [environment EXCEPT !.api_key_present = FALSE]).raised

\* transcribe_audio goes on to the local transcription (a model being loaded)
\* when the remote provider raises
RuntimeFallsThrough ==
    transcribe_audio(processing_mode, config, "openrouter", "loaded", TRUE,
                     transcript_file, RaisingCall, "ok", "ok", "ok").attempts
        = <<"api", "local">>

\* the remote provider is the first of the mode's chain
RemoteFirstConfigured ==
    /\ pipeline # "new" /\ processing_mode \in ApiFirstModes
    /\ config.provider = "openrouter"

\* C38: for one configuration the decision whether a failure of the remote
\* provider falls through to the local transcription is the same at startup
\* (the provider cannot be constructed) and in transcribe_audio (the provider
\* raises), also when fallback_to_local is absent from the configuration.
C38_SameFallbackDecision ==
    RemoteFirstConfigured => (StartupFallsThrough <=> RuntimeFallsThrough)

\* the decisions agree when fallback_to_local is given
SameFallbackDecisionWhenGiven ==
    (RemoteFirstConfigured /\ config.fallback_to_local # "absent")
        => (StartupFallsThrough <=> RuntimeFallsThrough)

(***************************************************************************)
(* What the remote generation returns (checked under SpecRetry).           *)
(***************************************************************************)

\* C39: for every max_retries >= 0, generate_guide of the OpenRouter provider
\* returns a generated guide text or raises: it never returns without
\* content.
C39_ReturnsContentOrRaises ==
    retryPhase = "returned" => generated = "content"

\* C39 holds when max_retries is at least 1 and the answer's text is not
\* blank
ReturnsContentAfterARequest ==
    (retryPhase = "returned" /\ responses # <<>>
        /\ LastResponse # "empty_content")
        => generated = "content"

====
